---- MODULE Spec2Model ----
(***************************************************************************)
(* The file-arrival pipeline of AI_DownloadOrganizer (src/main.py): the    *)
(* watchdog observer thread running DownloadHandler, the main thread       *)
(* running the NSTimer sweep (check_pending_downloads) and the preferences *)
(* save, the Downloads folder, settings.json, and the pending map          *)
(* downloading_files with its lock.                                        *)
(***************************************************************************)
EXTENDS Integers, Sequences, FiniteSets, TLC

\* ------------------------------------------------------------------ bounds

\* Largest byte size a download grows to (one unit per write).
MaxSize == 1
\* Number of clock ticks of a run.
MaxTicks == 2
\* Number of file events the observer delivers in a run.
MaxEvents == 2
\* Number of times the user saves the preferences in a run.
MaxSaves == 1
\* Number of files the downloader creates in a run.
MaxDownloads == 2
\* Largest number of atoms in an answer of the keyword service.
MaxResponse == 3

\* ------------------------------------------------------ program constants

\* check_pending_downloads: "if current_time - timestamp > 60".
PendingGrace == 60
\* The clock advances by the grace period: a timestamp is 0, 60, 120, ...
\* seconds old, so an entry exactly 60 seconds old and an older one both occur.
ClockStep == PendingGrace

Threads == {"watcher", "main"}
NoThread == "none"

\* -------------------------------------------------------------- file names

(* A string is a sequence of atoms ("a", "_", "1", "/", "..", " ", ",").  A
   path is a directory (the sequence of directory names below the user's
   home, each a string), a base name (a string) and an extension with its
   leading dot: os.path.join(dir, base + ext). *)
HOME == <<>>
DOWNLOADS_FOLDER == << <<"Downloads">> >>

MkPath(dir, base, ext) == [dir |-> dir, base |-> base, ext |-> ext]
NoPath == MkPath(<<>>, <<>>, "")

\* str(counter) for the counters a run can reach.
Digits == <<"1", "2", "3", "4", "5", "6", "7", "8", "9">>
Str(n) == Digits[n]

\* A lower() that returns its argument.
LowerKeepsCase(s) == s

\* str.lower() on the atoms and extensions of the model.
Lower(s) ==
    CASE s = ".PDF" -> ".pdf"
      [] s = ".Zip" -> ".zip"
      [] s = ".JPeG" -> ".jpeg"
      [] s = ".Py" -> ".py"
      [] s = ".KEY" -> ".key"
      [] s = ".XYZ" -> ".xyz"
      [] s = "ACME" -> "acme"
      [] s = "Invoice" -> "invoice"
      [] OTHER -> s

\* FILE_TYPES, in the order of the dict literal.
FILE_TYPES_KEYS ==
    << "PDF", "Images", "Archives", "Code", "Spreadsheets", "Disk Images",
       "Documents", "Videos", "Audio", "Presentations", "Executables" >>

\* A table in which ".key" is also a Code extension.
FileTypesOverlapping ==
    [ c \in { FILE_TYPES_KEYS[i] : i \in 1..Len(FILE_TYPES_KEYS) } |->
        CASE c = "PDF" -> {".pdf"}
          [] c = "Images" -> {".jpg", ".jpeg", ".png", ".gif", ".bmp", ".tiff", ".webp"}
          [] c = "Archives" -> {".zip", ".rar", ".7z", ".tar", ".gz"}
          [] c = "Code" -> {".py", ".js", ".java", ".c", ".cpp", ".rb", ".go",
                            ".html", ".css", ".php", ".swift", ".key"}
          [] c = "Spreadsheets" -> {".csv", ".xls", ".xlsx", ".tsv", ".ods"}
          [] c = "Disk Images" -> {".dmg", ".iso"}
          [] c = "Documents" -> {".doc", ".docx", ".odt", ".rtf", ".txt", ".md"}
          [] c = "Videos" -> {".mp4", ".mov", ".avi", ".mkv", ".wmv", ".flv", ".webm"}
          [] c = "Audio" -> {".mp3", ".wav", ".flac", ".aac", ".ogg", ".m4a"}
          [] c = "Presentations" -> {".ppt", ".pptx", ".key", ".odp"}
          [] c = "Executables" -> {".exe", ".app", ".sh", ".bat", ".msi"} ]

FILE_TYPES ==
    [ c \in { FILE_TYPES_KEYS[i] : i \in 1..Len(FILE_TYPES_KEYS) } |->
        CASE c = "PDF" -> {".pdf"}
          [] c = "Images" -> {".jpg", ".jpeg", ".png", ".gif", ".bmp", ".tiff", ".webp"}
          [] c = "Archives" -> {".zip", ".rar", ".7z", ".tar", ".gz"}
          [] c = "Code" -> {".py", ".js", ".java", ".c", ".cpp", ".rb", ".go",
                            ".html", ".css", ".php", ".swift"}
          [] c = "Spreadsheets" -> {".csv", ".xls", ".xlsx", ".tsv", ".ods"}
          [] c = "Disk Images" -> {".dmg", ".iso"}
          [] c = "Documents" -> {".doc", ".docx", ".odt", ".rtf", ".txt", ".md"}
          [] c = "Videos" -> {".mp4", ".mov", ".avi", ".mkv", ".wmv", ".flv", ".webm"}
          [] c = "Audio" -> {".mp3", ".wav", ".flac", ".aac", ".ogg", ".m4a"}
          [] c = "Presentations" -> {".ppt", ".pptx", ".key", ".odp"}
          [] c = "Executables" -> {".exe", ".app", ".sh", ".bat", ".msi"} ]

Categories == DOMAIN FILE_TYPES

\* get_category_for_extension: the first category, in dict order, whose list
\* holds ext.lower(); "Other" when none does.
RECURSIVE CategoryFrom(_, _)
CategoryFrom(i, ext) ==
    IF i > Len(FILE_TYPES_KEYS) THEN "Other"
    ELSE IF Lower(ext) \in FILE_TYPES[FILE_TYPES_KEYS[i]] THEN FILE_TYPES_KEYS[i]
    ELSE CategoryFrom(i + 1, ext)

get_category_for_extension(ext) == CategoryFrom(1, ext)

\* The processors that derive keywords: process_pdf and process_code.
KeywordCategories == {"PDF", "Code"}

\* ---------------------------------------------------------------- settings

(* The content of settings.json: absent, unparsable ("bad": malformed, or
   truncated by a save in progress), or a record ("ok").  file_types maps
   category names to booleans; a record may lack keys. *)
MkSettings(rename, organize, types) ==
    [kind |-> "ok", rename_files |-> rename, organize_folders |-> organize,
     file_types |-> types]

DEFAULT_SETTINGS == MkSettings(TRUE, TRUE, [c \in Categories |-> TRUE])

AbsentFile == [DEFAULT_SETTINGS EXCEPT !.kind = "absent"]
BadFile == [DEFAULT_SETTINGS EXCEPT !.kind = "bad"]

\* The categories whose checkbox the model's preferences window toggles; the
\* others stay checked.
ToggledCategories == {"PDF"}

\* The records PreferencesWindowController.saveSettings_ can write: one
\* boolean per checkbox, a file_types entry for every key of fileTypeCheckboxes.
UISettings ==
    { MkSettings(r, o, [c \in Categories |-> IF c \in ToggledCategories THEN e ELSE TRUE]) :
        r \in BOOLEAN, o \in BOOLEAN, e \in BOOLEAN }

\* dict.get(key, default)
Get(d, key, default) == IF key \in DOMAIN d THEN d[key] ELSE default

\* {}: the object without keys.
EmptyObject == [c \in {} |-> TRUE]

\* A JSON value where an object is expected (null, a list, a number, a
\* string): it has no get().
NotAnObject == [c \in {"not an object"} |-> FALSE]

\* settings.json parses to a JSON value that is not an object.
ValueFile == [kind |-> "value"]

\* A gate that takes a category without an entry for a disabled one.
TypeEnabledIfListed(settings, category) ==
    /\ category \in DOMAIN Get(settings, "file_types", EmptyObject)
    /\ Get(settings, "file_types", EmptyObject)[category]

\* settings.get("file_types", {}).get(category, True)
TypeEnabled(settings, category) ==
    Get(Get(settings, "file_types", EmptyObject), category, TRUE)

\* settings.get("file_types", {}) raises on a value without get(), and so
\* does file_type_settings.get(category, True), which the test of line 345
\* reaches for every category but "Other".
GateRaises(settings, category) ==
    \/ settings.kind = "value"
    \/ /\ category # "Other"
       /\ Get(settings, "file_types", EmptyObject) = NotAnObject

\* The gate of process_new_file:
\* category != "Other" and not file_type_settings.get(category, True)  => skip
GatePasses(settings, category) ==
    ~ (category # "Other" /\ ~ TypeEnabled(settings, category))

\* A load_settings that keeps the record it had at start-up.
LoadResultCached(content) == DEFAULT_SETTINGS

\* What load_settings returns for a present file: json.load's record, or
\* DEFAULT_SETTINGS when reading or parsing raises.
LoadResult(content) ==
    IF content.kind \in {"ok", "value"} THEN content ELSE DEFAULT_SETTINGS


\* ---------------------------------------------------------------- keywords

\* text.split(","): the pieces between the "," atoms.
RECURSIVE SplitComma(_, _)
SplitComma(text, piece) ==
    IF text = <<>> THEN <<piece>>
    ELSE IF Head(text) = "," THEN <<piece>> \o SplitComma(Tail(text), <<>>)
    ELSE SplitComma(Tail(text), Append(piece, Head(text)))

\* str.strip(): leading and trailing blanks removed.
RECURSIVE LStrip(_)
LStrip(s) == IF s # <<>> /\ Head(s) = " " THEN LStrip(Tail(s)) ELSE s

RECURSIVE RStrip(_)
RStrip(s) ==
    IF s # <<>> /\ s[Len(s)] = " " THEN RStrip(SubSeq(s, 1, Len(s) - 1)) ELSE s

Strip(s) == RStrip(LStrip(s))

LowerStr(s) == [i \in 1..Len(s) |-> Lower(s[i])]

\* [k.strip().lower() for k in keywords_text.split(",") if k.strip()]
SanitizeAll(pieces) ==
    LET kept == SelectSeq(pieces, LAMBDA k : Strip(k) # <<>>)
    IN  [i \in 1..Len(kept) |-> LowerStr(Strip(kept[i]))]

\* keywords[:2]
FirstTwo(keywords) == SubSeq(keywords, 1, IF Len(keywords) < 2 THEN Len(keywords) ELSE 2)

(* extract_keywords on the service's answer: a response text, or a raised
   error (any exception of the call or of reading the response), which yields
   the empty list. *)
ServiceError == [raised |-> TRUE, content |-> <<>>]
ServiceText(content) == [raised |-> FALSE, content |-> content]

extract_keywords(response) ==
    IF response.raised THEN <<>>
    ELSE FirstTwo(SanitizeAll(SplitComma(Strip(response.content), <<>>)))

\* No answer yet.
NoResponse == ServiceText(<<>>)

\* The answers the keyword service gives in the model.
Responses ==
    { ServiceError,
      ServiceText(<<"ACME", ",", " ", "Invoice">>),
      ServiceText(<<"..", "/", "x">>) }

\* "_".join(keywords)
RECURSIVE JoinUnderscore(_)
JoinUnderscore(keywords) ==
    IF keywords = <<>> THEN <<>>
    ELSE IF Len(keywords) = 1 THEN keywords[1]
    ELSE keywords[1] \o <<"_">> \o JoinUnderscore(Tail(keywords))

\* -------------------------------------------------------------- filesystem

(* The file the operating system reaches for a path string: the "/" atoms of
   the base split it into directory names, ".." leaves a directory. *)
RECURSIVE ResolveFrom(_, _, _, _)
ResolveFrom(dir, atoms, piece, ext) ==
    IF atoms = <<>> THEN MkPath(dir, piece, ext)
    ELSE IF Head(atoms) = "/"
         THEN ResolveFrom(
                 IF piece = <<"..">>
                 THEN (IF dir = <<>> THEN dir ELSE SubSeq(dir, 1, Len(dir) - 1))
                 ELSE IF piece = <<>> THEN dir ELSE Append(dir, piece),
                 Tail(atoms), <<>>, ext)
         ELSE ResolveFrom(dir, Tail(atoms), Append(piece, Head(atoms)), ext)

Resolve(path) == ResolveFrom(path.dir, path.base, <<>>, path.ext)

\* The files the downloader writes into the watched folder.
SrcPaths ==
    { MkPath(DOWNLOADS_FOLDER, <<"a">>, ".pdf") }


\* ------------------------------------------------------------------- state

VARIABLES
    fs,                     \* the files: path -> byte size
    dirs,                   \* the directories that exist
    settings_file,          \* the content of settings.json (SETTINGS_FILE)
    downloading_files,      \* the pending map: path -> timestamp
    downloading_files_lock, \* the thread holding the lock, or NoThread
    now,                    \* time.time(), in seconds
    downloads,              \* files the downloader has created so far
    events,                 \* file events delivered so far
    saves,                  \* preferences saves so far
    th                      \* each thread's position and local variables

vars == << fs, dirs, settings_file, downloading_files, downloading_files_lock,
           now, downloads, events, saves, th >>

(* A thread's frame.  pc is its position; the other fields are the locals of
   the functions it is inside, named as in the source.  origin is the caller
   of process_new_file ("event": on_created, "sweep": check_pending_downloads);
   outcome is how the last process_new_file call ended; replaced is the
   content settings.json had when the save in progress opened it; response
   is the answer the keyword service gave to the call in progress; read is
   how the last attempt of extract_text_from_pdf went. *)
IdleFrame ==
    [ pc |-> "idle",
      origin |-> "none",
      file_path |-> NoPath,
      ifc_caller |-> "none",
      initial_size |-> -1,
      complete |-> FALSE,
      category |-> "",
      ls_caller |-> "none",
      ls_found |-> "none",
      settings |-> DEFAULT_SETTINGS,
      current_settings |-> DEFAULT_SETTINGS,
      to_save |-> DEFAULT_SETTINGS,
      save_caller |-> "none",
      replaced |-> AbsentFile,
      attempt |-> 0,
      read |-> "none",
      text |-> "",
      response |-> NoResponse,
      keywords |-> <<>>,
      new_base_name |-> <<>>,
      target_folder |-> HOME,
      new_file_path |-> NoPath,
      counter |-> 0,
      overwrote |-> FALSE,
      outcome |-> "none",
      current_time |-> 0,
      todo |-> {},
      files_to_process |-> <<>>,
      files_to_remove |-> {} ]

Exists(path) == Resolve(path) \in DOMAIN fs

(* settings.json once applicationDidFinishLaunching_ has called
   load_settings (line 655): the defaults, the record an earlier run saved
   with the toggled categories unchecked, a damaged file, or no file at all
   when the write of the defaults failed. *)
StartSettings ==
    { AbsentFile, BadFile, DEFAULT_SETTINGS,
      MkSettings(TRUE, TRUE, [c \in Categories |-> c \notin ToggledCategories]) }

Init ==
    /\ fs = [p \in {} |-> 0]
    /\ dirs = {HOME, DOWNLOADS_FOLDER}
    /\ settings_file \in StartSettings
    /\ downloading_files = [p \in {} |-> 0]
    /\ downloading_files_lock = NoThread
    /\ now = 0
    /\ downloads = 0
    /\ events = 0
    /\ saves = 0
    /\ th = [t \in Threads |-> IdleFrame]

\* ------------------------------------------------------------- environment

\* The browser starts a download: an empty file appears in the watched folder.
Download(p) ==
    /\ downloads < MaxDownloads
    /\ p \notin DOMAIN fs
    /\ fs' = [q \in DOMAIN fs \cup {p} |-> IF q = p THEN 0 ELSE fs[q]]
    /\ downloads' = downloads + 1
    /\ UNCHANGED << dirs, settings_file, downloading_files, downloading_files_lock, now, events, saves, th >>

\* The browser writes more bytes of a download.
Write(p) ==
    /\ p \in DOMAIN fs
    /\ fs[p] < MaxSize
    /\ fs' = [fs EXCEPT ![p] = @ + 1]
    /\ UNCHANGED << dirs, settings_file, downloading_files, downloading_files_lock, now,
                    downloads, events, saves, th >>

\* The user cancels a download or deletes a downloaded file.
Delete(p) ==
    /\ p \in DOMAIN fs
    /\ fs' = [q \in DOMAIN fs \ {p} |-> fs[q]]
    /\ UNCHANGED << dirs, settings_file, downloading_files, downloading_files_lock, now,
                    downloads, events, saves, th >>

\* Time passes.
Tick ==
    /\ now < MaxTicks * ClockStep
    /\ now' = now + ClockStep
    /\ UNCHANGED << fs, dirs, settings_file, downloading_files, downloading_files_lock,
                    downloads, events, saves, th >>

\* ------------------------------------------------------------ lock and map

\* An acquire that does not wait for the holder.
AcquireWithoutWaiting(t) == downloading_files_lock' = t

\* downloading_files_lock.acquire() of a "with" statement: blocks while held.
Acquire(t) ==
    /\ downloading_files_lock = NoThread
    /\ downloading_files_lock' = t

\* An end of the "with" block that keeps the lock.
ReleaseKeeps(t) == downloading_files_lock' = t

\* The end of the "with" block.
Release(t) == downloading_files_lock' = NoThread

\* An insert that stamps every entry with the start of the run.
MapSetEpoch(map, path, timestamp) ==
    [q \in DOMAIN map \cup {path} |-> IF q = path THEN 0 ELSE map[q]]

\* downloading_files[path] = timestamp
MapSet(map, path, timestamp) ==
    [q \in DOMAIN map \cup {path} |-> IF q = path THEN timestamp ELSE map[q]]

\* A delete that leaves the map as it is.
MapDelNothing(map, paths) == map

\* del downloading_files[path], for each path of a set
MapDel(map, paths) == [q \in DOMAIN map \ paths |-> map[q]]

\* The positions at which a thread reads or writes downloading_files.
MapAccessPcs == {"mod_read", "pnf_queue", "pnf_unlist", "sw_iter", "sw_tested"}

Step(t, frame) == th' = [th EXCEPT ![t] = frame]

\* process_new_file returns: to on_created, or to the loop of the sweep.
Returned(f, outcome) == [f EXCEPT !.pc = "pnf_end", !.outcome = outcome]

\* An exception no handler of process_new_file or rename_and_sort_file
\* catches leaves the call.
Raised(f) == [f EXCEPT !.pc = "unwind", !.outcome = "raised"]


\* ------------------------------------------------------- is_file_complete

\* An is_file_complete whose caller goes on to the stable branch whatever
\* it returned.
IfcReturnProceeds(f, result) ==
    [f EXCEPT !.pc = IF f.ifc_caller = "sweep" THEN "sw_tested" ELSE "pnf_unlist_lock",
              !.complete = result,
              !.initial_size = -1]

\* is_file_complete returns `result` to its caller: process_new_file goes on
\* to one of its two "with" blocks, the sweep to its loop body.
IfcReturn(f, result) ==
    [f EXCEPT !.pc = IF f.ifc_caller = "sweep" THEN "sw_tested"
                     ELSE IF result THEN "pnf_unlist_lock" ELSE "pnf_queue_lock",
              !.complete = result,
              !.initial_size = -1]

\* Lines 101-106: False when the file is absent or the size query raises,
\* else the first size sample; time.sleep(MIN_FILE_AGE) follows.
IfcFirst(t) ==
    /\ th[t].pc = "ifc_first"
    /\ \E raises \in BOOLEAN :
         LET f == th[t] IN
         IF f.file_path \notin DOMAIN fs \/ raises
         THEN Step(t, IfcReturn(f, FALSE))
         ELSE Step(t, [f EXCEPT !.pc = "ifc_second", !.initial_size = fs[f.file_path]])
    /\ UNCHANGED << fs, dirs, settings_file, downloading_files, downloading_files_lock,
                    now, downloads, events, saves >>

\* A second sample that is not compared with the first.
IfcSecondIgnoresSize(t) ==
    /\ th[t].pc = "ifc_second"
    /\ \E raises \in BOOLEAN :
         Step(t, IfcReturn(th[t], ~ raises /\ th[t].file_path \in DOMAIN fs))
    /\ UNCHANGED << fs, dirs, settings_file, downloading_files, downloading_files_lock,
                    now, downloads, events, saves >>

\* Lines 108-118, after the sleep: the second sample (-1 when the file is
\* gone), compared with the first; a raising size query gives False.
IfcSecond(t) ==
    /\ th[t].pc = "ifc_second"
    /\ \E raises \in BOOLEAN :
         LET f == th[t]
             current_size == IF f.file_path \in DOMAIN fs THEN fs[f.file_path] ELSE -1
         IN  Step(t, IfcReturn(f, ~ raises /\ f.initial_size = current_size))
    /\ UNCHANGED << fs, dirs, settings_file, downloading_files, downloading_files_lock,
                    now, downloads, events, saves >>

\* ------------------------------------------------- rename_and_sort_file

\* A base name that takes the keywords whatever rename_files says.
NewBaseNameOfKeywords(settings, keywords, base) ==
    IF keywords # <<>> THEN JoinUnderscore(keywords) ELSE base

\* Lines 217-223: the base name of the destination.
NewBaseName(settings, keywords, base) ==
    IF Get(settings, "rename_files", TRUE)
    THEN (IF keywords # <<>> THEN JoinUnderscore(keywords) ELSE base)
    ELSE base

\* Lines 226-231: the folder of the destination.
TargetFolder(settings, category) ==
    IF Get(settings, "organize_folders", TRUE)
    THEN Append(DOWNLOADS_FOLDER, <<category>>)
    ELSE DOWNLOADS_FOLDER

\* A scan whose counter starts one too high.
FirstCounterSkips == 1 + 1

\* The first value of counter (line 234).
FirstCounter == 1

\* Lines 236-239: f"{new_base_name}_{counter}{ext}" in the target folder.
Candidate(folder, new_base_name, counter, ext) ==
    MkPath(folder, new_base_name \o <<"_", Str(counter)>>, ext)

\* The path of a directory is the path of a file: os.makedirs(target_folder,
\* exist_ok=True) raises FileExistsError.
FolderIsFile(folder) ==
    /\ folder # <<>>
    /\ MkPath(SubSeq(folder, 1, Len(folder) - 1), folder[Len(folder)], "") \in DOMAIN fs

\* Lines 213-228 raise outside every try: current_settings.get on a value
\* without get(), or os.makedirs on a path a file has.
PlaceRaises(settings, category) ==
    \/ settings.kind = "value"
    \/ /\ Get(settings, "organize_folders", TRUE)
       /\ FolderIsFile(Append(DOWNLOADS_FOLDER, <<category>>))

\* ------------------------------------------- load_settings, save_settings

(* load_settings has returned `loaded` to showWindow_ (which fills the
   checkboxes from it), to process_new_file (the gate, lines 342-347, and the
   dispatch to a processor, lines 350-373) or to rename_and_sort_file (lines
   213-231, os.makedirs included). *)
AfterLoad(t, f, loaded, found) ==
    IF f.ls_caller = "ui"
    THEN Step(t, IdleFrame) /\ dirs' = dirs
    ELSE IF f.ls_caller = "gate"
    THEN /\ dirs' = dirs
         /\ LET g == [f EXCEPT !.settings = loaded, !.ls_found = found] IN
            IF GateRaises(loaded, f.category)
            THEN Step(t, Raised(g))
            ELSE IF ~ GatePasses(loaded, f.category)
            THEN Step(t, Returned(g, "gated"))
            ELSE IF f.category \in KeywordCategories
            THEN Step(t, [g EXCEPT !.pc = "extract"])
            ELSE Step(t, [g EXCEPT !.pc = "ls_load", !.ls_caller = "place",
                                   !.keywords = <<>>])
    ELSE IF PlaceRaises(loaded, f.category)
    THEN /\ dirs' = dirs
         /\ Step(t, Raised([f EXCEPT !.current_settings = DEFAULT_SETTINGS,
                                     !.ls_found = found]))
    ELSE LET folder == TargetFolder(loaded, f.category)
             base == NewBaseName(loaded, f.keywords, f.file_path.base)
         IN  /\ dirs' = dirs \cup {folder}
             /\ Step(t, [f EXCEPT !.pc = "rs_scan",
                                  !.current_settings = loaded,
                                  !.ls_found = found,
                                  !.settings = DEFAULT_SETTINGS,
                                  !.text = "",
                                  !.new_base_name = base,
                                  !.target_folder = folder,
                                  !.new_file_path = MkPath(folder, base, f.file_path.ext),
                                  !.counter = FirstCounter])

\* Lines 76-84: an absent file makes load_settings save the defaults; a
\* present one is read and parsed.
LsLoad(t) ==
    /\ th[t].pc = "ls_load"
    /\ LET f == th[t] IN
       IF settings_file.kind = "absent"
       THEN /\ Step(t, [f EXCEPT !.pc = "save_open", !.to_save = DEFAULT_SETTINGS,
                                 !.save_caller = "ls"])
            /\ dirs' = dirs
       ELSE AfterLoad(t, f, LoadResult(settings_file), settings_file.kind)
    /\ UNCHANGED << fs, settings_file, downloading_files, downloading_files_lock, now,
                    downloads, events, saves >>

\* save_settings has returned: to saveSettings_ (the preferences window), or
\* to load_settings, which returns DEFAULT_SETTINGS (line 78).
SaveReturn(t, f) ==
    IF f.save_caller = "ui"
    THEN Step(t, IdleFrame) /\ dirs' = dirs
    ELSE AfterLoad(t, [f EXCEPT !.save_caller = "none", !.to_save = DEFAULT_SETTINGS,
                                !.replaced = AbsentFile],
                   DEFAULT_SETTINGS, "absent")

\* Line 89: open(SETTINGS_FILE, "w") truncates the file, or raises (caught).
SaveOpen(t) ==
    /\ th[t].pc = "save_open"
    /\ \E raises \in BOOLEAN :
         IF raises
         THEN settings_file' = settings_file /\ SaveReturn(t, th[t])
         ELSE /\ settings_file' = BadFile
              /\ Step(t, [th[t] EXCEPT !.pc = "save_write", !.replaced = settings_file])
              /\ dirs' = dirs
    /\ UNCHANGED << fs, downloading_files, downloading_files_lock, now, downloads, events, saves >>

\* Line 90: json.dump writes the record, or raises part-way (caught).
SaveWrite(t) ==
    /\ th[t].pc = "save_write"
    /\ \E raises \in BOOLEAN :
         /\ settings_file' = IF raises THEN BadFile ELSE th[t].to_save
         /\ SaveReturn(t, th[t])
    /\ UNCHANGED << fs, downloading_files, downloading_files_lock, now, downloads, events, saves >>

\* PreferencesWindowController.showWindow_ (lines 555-559): the preferences
\* window is opened and reloads the settings.
ShowWindow ==
    /\ th["main"].pc = "idle"
    /\ saves < MaxSaves
    /\ Step("main", [IdleFrame EXCEPT !.pc = "ls_load", !.ls_caller = "ui"])
    /\ UNCHANGED << fs, dirs, settings_file, downloading_files, downloading_files_lock,
                    now, downloads, events, saves >>

\* PreferencesWindowController.saveSettings_ (lines 571-587): the record of
\* the checkboxes is saved.
SaveSettingsUI(s) ==
    /\ th["main"].pc = "idle"
    /\ saves < MaxSaves
    /\ saves' = saves + 1
    /\ Step("main", [IdleFrame EXCEPT !.pc = "save_open", !.to_save = s,
                                      !.save_caller = "ui"])
    /\ UNCHANGED << fs, dirs, settings_file, downloading_files, downloading_files_lock,
                    now, downloads, events >>


\* ------------------------------------------------------- process_new_file

\* Lines 316-321: a missing file is skipped; otherwise is_file_complete runs.
PnfExists(t) ==
    /\ th[t].pc = "pnf_exists"
    /\ LET f == th[t] IN
       IF f.file_path \in DOMAIN fs
       THEN Step(t, [f EXCEPT !.pc = "ifc_first", !.ifc_caller = "pnf"])
       ELSE Step(t, Returned(f, "absent"))
    /\ UNCHANGED << fs, dirs, settings_file, downloading_files, downloading_files_lock,
                    now, downloads, events, saves >>

\* Line 324: "with downloading_files_lock:" of the not-stable branch.
PnfQueueLock(t) ==
    /\ th[t].pc = "pnf_queue_lock"
    /\ Acquire(t)
    /\ Step(t, [th[t] EXCEPT !.pc = "pnf_queue"])
    /\ UNCHANGED << fs, dirs, settings_file, downloading_files, now, downloads, events, saves >>

\* Lines 325-326: the path is queued with the current time; return.
PnfQueue(t) ==
    /\ th[t].pc = "pnf_queue"
    /\ downloading_files' = MapSet(downloading_files, th[t].file_path, now)
    /\ Release(t)
    /\ Step(t, Returned(th[t], "queued"))
    /\ UNCHANGED << fs, dirs, settings_file, now, downloads, events, saves >>

\* Line 332: "with downloading_files_lock:" of the stable branch.
PnfUnlistLock(t) ==
    /\ th[t].pc = "pnf_unlist_lock"
    /\ Acquire(t)
    /\ Step(t, [th[t] EXCEPT !.pc = "pnf_unlist"])
    /\ UNCHANGED << fs, dirs, settings_file, downloading_files, now, downloads, events, saves >>

\* Lines 333-339: the path leaves the map if it is there; the extension is
\* lower-cased and classified.  load_settings (line 342) comes next.
PnfUnlist(t) ==
    /\ th[t].pc = "pnf_unlist"
    /\ downloading_files' = MapDel(downloading_files, {th[t].file_path})
    /\ Release(t)
    /\ Step(t, [th[t] EXCEPT !.pc = "ls_load", !.ls_caller = "gate",
                             !.category = get_category_for_extension(Lower(th[t].file_path.ext))])
    /\ UNCHANGED << fs, dirs, settings_file, now, downloads, events, saves >>

\* Processors that put a file without text back into the pending map.
ExtractRequeues(t) ==
    /\ th[t].pc = "extract"
    /\ \E text \in {"", "text"} :
         LET f == th[t] IN
         /\ text # "" => (f.file_path \in DOMAIN fs /\ fs[f.file_path] > 0)
         /\ IF text = ""
            THEN /\ Step(t, Returned(f, "no_text"))
                 /\ downloading_files' = MapSet(downloading_files, f.file_path, now)
            ELSE /\ Step(t, [f EXCEPT !.pc = "keywords", !.text = text])
                 /\ downloading_files' = downloading_files
    /\ UNCHANGED << fs, dirs, settings_file, downloading_files_lock,
                    now, downloads, events, saves >>

\* process_pdf / process_code, lines 252-258 and 270-276: the excerpt of the
\* file (empty when it cannot be read or holds nothing); no text, no placement.
Extract(t) ==
    /\ th[t].pc = "extract"
    /\ \E text \in {"", "text"} :
         LET f == th[t] IN
         /\ text # "" => (f.file_path \in DOMAIN fs /\ fs[f.file_path] > 0)
         /\ IF text = ""
            THEN Step(t, Returned(f, "no_text"))
            ELSE Step(t, [f EXCEPT !.pc = "keywords", !.text = text])
    /\ UNCHANGED << fs, dirs, settings_file, downloading_files, downloading_files_lock,
                    now, downloads, events, saves >>

\* An extraction that tries once more.
RetriesAndOne == 3 + 1

\* extract_text_from_pdf(file_path, retries=3, delay=1)
Retries == 3

\* How an attempt that finds the file can go: the size is zero, the first
\* page gives text or none, FileNotFoundError is raised, another error is.
PdfReads == {"zero", "text", "empty", "fnf", "error"}

(* Lines 126-152, one attempt of extract_text_from_pdf with the sleep that
   follows it, and process_pdf's "if text:" (lines 252-258) when the
   function returns.  A missing file, or FileNotFoundError, ends it with "";
   text ends it with the text; a zero size, a page without text or another
   error costs the attempt, and after the last one the function returns the
   empty text it has. *)
PdfAttempt(t) ==
    /\ th[t].pc = "extract"
    /\ th[t].category = "PDF"
    /\ th[t].attempt < Retries
    /\ LET f == th[t] IN
       IF f.file_path \notin DOMAIN fs
       THEN Step(t, Returned([f EXCEPT !.read = "missing"], "no_text"))
       ELSE \E read \in PdfReads :
              /\ read = "zero" => fs[f.file_path] = 0
              /\ read \in {"text", "empty"} => fs[f.file_path] > 0
              /\ LET g == [f EXCEPT !.read = read] IN
                 IF read = "fnf"
                 THEN Step(t, Returned(g, "no_text"))
                 ELSE IF read = "text"
                 THEN Step(t, [g EXCEPT !.pc = "keywords", !.text = "text"])
                 ELSE IF f.attempt + 1 < Retries
                 THEN Step(t, [g EXCEPT !.attempt = f.attempt + 1])
                 ELSE Step(t, Returned([g EXCEPT !.attempt = f.attempt + 1], "no_text"))
    /\ UNCHANGED << fs, dirs, settings_file, downloading_files, downloading_files_lock,
                    now, downloads, events, saves >>

\* extract_keywords(text), lines 190-203: the remote call and its answer,
\* one of `answers`.
KeywordsFrom(t, answers) ==
    /\ th[t].pc = "keywords"
    /\ \E response \in answers :
         Step(t, [th[t] EXCEPT !.pc = "ls_load", !.ls_caller = "place",
                               !.response = response,
                               !.keywords = extract_keywords(response)])
    /\ UNCHANGED << fs, dirs, settings_file, downloading_files, downloading_files_lock,
                    now, downloads, events, saves >>

Keywords(t) == KeywordsFrom(t, Responses)

\* Lines 235-240: one test of the while loop, and its body when the path exists.
RsScan(t) ==
    /\ th[t].pc = "rs_scan"
    /\ LET f == th[t] IN
       IF Exists(f.new_file_path)
       THEN Step(t, [f EXCEPT !.new_file_path =
                                   Candidate(f.target_folder, f.new_base_name,
                                             f.counter, f.file_path.ext),
                              !.counter = f.counter + 1])
       ELSE Step(t, [f EXCEPT !.pc = "rs_move"])
    /\ UNCHANGED << fs, dirs, settings_file, downloading_files, downloading_files_lock,
                    now, downloads, events, saves >>

\* A placement that copies the file and leaves the source where it is.
RsMoveCopies(t) ==
    /\ th[t].pc = "rs_move"
    /\ \E raises \in BOOLEAN :
         LET f == th[t]
             src == f.file_path
             dst == Resolve(f.new_file_path)
         IN  IF raises \/ src \notin DOMAIN fs \/ dst.dir \notin dirs
             THEN /\ fs' = fs
                  /\ Step(t, Returned(f, "move_failed"))
             ELSE /\ fs' = [q \in DOMAIN fs \cup {dst} |->
                               IF q = dst THEN fs[src] ELSE fs[q]]
                  /\ Step(t, Returned([f EXCEPT !.overwrote = (dst \in DOMAIN fs /\ dst # src)],
                                      "moved"))
    /\ UNCHANGED << dirs, settings_file, downloading_files, downloading_files_lock,
                    now, downloads, events, saves >>

\* A placement that puts the path back into the pending map when the move fails.
RsMoveRequeues(t) ==
    /\ th[t].pc = "rs_move"
    /\ \E raises \in BOOLEAN :
         LET f == th[t]
             src == f.file_path
             dst == Resolve(f.new_file_path)
         IN  IF raises \/ src \notin DOMAIN fs \/ dst.dir \notin dirs
             THEN /\ fs' = fs
                  /\ downloading_files' = MapSet(downloading_files, src, now)
                  /\ Step(t, Returned(f, "move_failed"))
             ELSE /\ fs' = [q \in (DOMAIN fs \ {src}) \cup {dst} |->
                               IF q = dst THEN fs[src] ELSE fs[q]]
                  /\ downloading_files' = downloading_files
                  /\ Step(t, Returned([f EXCEPT !.overwrote = (dst \in DOMAIN fs /\ dst # src)],
                                      "moved"))
    /\ UNCHANGED << dirs, settings_file, downloading_files_lock,
                    now, downloads, events, saves >>

(* Lines 242-246: shutil.move(file_path, new_file_path).  It raises (caught)
   when the source is gone, the destination directory is missing or the
   system refuses; otherwise the file is renamed onto the destination, and a
   file already there is replaced. *)
RsMove(t) ==
    /\ th[t].pc = "rs_move"
    /\ \E raises \in BOOLEAN :
         LET f == th[t]
             src == f.file_path
             dst == Resolve(f.new_file_path)
         IN  IF raises \/ src \notin DOMAIN fs \/ dst.dir \notin dirs
             THEN /\ fs' = fs
                  /\ Step(t, Returned(f, "move_failed"))
             ELSE /\ fs' = [q \in (DOMAIN fs \ {src}) \cup {dst} |->
                               IF q = dst THEN fs[src] ELSE fs[q]]
                  /\ Step(t, Returned([f EXCEPT !.overwrote = (dst \in DOMAIN fs /\ dst # src)],
                                      "moved"))
    /\ UNCHANGED << dirs, settings_file, downloading_files, downloading_files_lock,
                    now, downloads, events, saves >>

\* process_new_file returns: on_created ends, or the sweep's loop goes on.
Return(t) ==
    /\ th[t].pc = "pnf_end"
    /\ IF th[t].origin = "sweep"
       THEN Step(t, [IdleFrame EXCEPT !.pc = "sw_process",
                                      !.files_to_process = th[t].files_to_process])
       ELSE Step(t, IdleFrame)
    /\ UNCHANGED << fs, dirs, settings_file, downloading_files, downloading_files_lock,
                    now, downloads, events, saves >>

(* The exception leaves on_created, or check_pending_downloads with the rest
   of files_to_process unhandled.  What the caller outside src/main.py does
   with it (the observer's dispatch loop, the run loop that called the
   timer's selector) is not in the source: the thread goes on, or it ends. *)
Unwind(t) ==
    /\ th[t].pc = "unwind"
    /\ \E survives \in BOOLEAN :
         Step(t, [IdleFrame EXCEPT !.pc = IF survives THEN "idle" ELSE "stopped"])
    /\ UNCHANGED << fs, dirs, settings_file, downloading_files, downloading_files_lock,
                    now, downloads, events, saves >>

\* ------------------------------------------------ check_pending_downloads

\* checkPendingDownloads_: the timer fires on the main thread.
TimerFires ==
    /\ th["main"].pc = "idle"
    /\ Step("main", [IdleFrame EXCEPT !.pc = "sw_lock"])
    /\ UNCHANGED << fs, dirs, settings_file, downloading_files, downloading_files_lock,
                    now, downloads, events, saves >>

\* Lines 377-382: the lock is taken, the time read, the iteration started.
SwLock(t) ==
    /\ th[t].pc = "sw_lock"
    /\ Acquire(t)
    /\ Step(t, [th[t] EXCEPT !.pc = "sw_iter", !.current_time = now,
                             !.todo = DOMAIN downloading_files])
    /\ UNCHANGED << fs, dirs, settings_file, downloading_files, now, downloads, events, saves >>

\* A sweep that leaves the entry of a file that is gone where it is.
SwIterKeepsVanished(t) ==
    /\ th[t].pc = "sw_iter"
    /\ th[t].todo # {}
    /\ \E p \in th[t].todo :
         LET f == [th[t] EXCEPT !.todo = @ \ {p}] IN
         IF f.current_time - downloading_files[p] > PendingGrace /\ p \in DOMAIN fs
         THEN Step(t, [f EXCEPT !.pc = "ifc_first", !.ifc_caller = "sweep",
                                !.file_path = p])
         ELSE Step(t, f)
    /\ UNCHANGED << fs, dirs, settings_file, downloading_files, downloading_files_lock,
                    now, downloads, events, saves >>

\* Lines 382-394: one entry of the iteration: an entry older than the grace
\* period is tested when its file exists and marked for removal when not.
\* A sweep that takes an entry up as soon as it is as old as the grace period.
SwIterFromGrace(t) ==
    /\ th[t].pc = "sw_iter"
    /\ th[t].todo # {}
    /\ \E p \in th[t].todo :
         LET f == [th[t] EXCEPT !.todo = @ \ {p}] IN
         IF f.current_time - downloading_files[p] >= PendingGrace
         THEN IF p \in DOMAIN fs
              THEN Step(t, [f EXCEPT !.pc = "ifc_first", !.ifc_caller = "sweep",
                                     !.file_path = p])
              ELSE Step(t, [f EXCEPT !.files_to_remove = @ \cup {p}])
         ELSE Step(t, f)
    /\ UNCHANGED << fs, dirs, settings_file, downloading_files, downloading_files_lock,
                    now, downloads, events, saves >>

SwIter(t) ==
    /\ th[t].pc = "sw_iter"
    /\ th[t].todo # {}
    /\ \E p \in th[t].todo :
         LET f == [th[t] EXCEPT !.todo = @ \ {p}] IN
         IF f.current_time - downloading_files[p] > PendingGrace
         THEN IF p \in DOMAIN fs
              THEN Step(t, [f EXCEPT !.pc = "ifc_first", !.ifc_caller = "sweep",
                                     !.file_path = p])
              ELSE Step(t, [f EXCEPT !.files_to_remove = @ \cup {p}])
         ELSE Step(t, f)
    /\ UNCHANGED << fs, dirs, settings_file, downloading_files, downloading_files_lock,
                    now, downloads, events, saves >>

\* A sweep that drops the entry of a file it finds still unstable.
SwTestedDrops(t) ==
    /\ th[t].pc = "sw_tested"
    /\ LET f == th[t] IN
       IF f.complete
       THEN /\ Step(t, [f EXCEPT !.pc = "sw_iter", !.file_path = NoPath,
                                 !.ifc_caller = "none", !.complete = FALSE,
                                 !.files_to_process = Append(@, f.file_path)])
            /\ downloading_files' = downloading_files
       ELSE /\ Step(t, [f EXCEPT !.pc = "sw_iter", !.file_path = NoPath,
                                 !.ifc_caller = "none"])
            /\ downloading_files' = MapDel(downloading_files, {f.file_path})
    /\ UNCHANGED << fs, dirs, settings_file, downloading_files_lock, now, downloads, events, saves >>

\* A sweep that does not list the files it finds stable.
SwTestedForgets(t) ==
    /\ th[t].pc = "sw_tested"
    /\ LET f == th[t] IN
       IF f.complete
       THEN /\ Step(t, [f EXCEPT !.pc = "sw_iter", !.file_path = NoPath,
                                 !.ifc_caller = "none", !.complete = FALSE])
            /\ downloading_files' = downloading_files
       ELSE /\ Step(t, [f EXCEPT !.pc = "sw_iter", !.file_path = NoPath,
                                 !.ifc_caller = "none"])
            /\ downloading_files' = MapSet(downloading_files, f.file_path, f.current_time)
    /\ UNCHANGED << fs, dirs, settings_file, downloading_files_lock, now, downloads, events, saves >>

\* Lines 387-391: a stable file is listed for processing, an unstable one
\* gets the sweep's time as its new timestamp.
SwTested(t) ==
    /\ th[t].pc = "sw_tested"
    /\ LET f == th[t] IN
       IF f.complete
       THEN /\ Step(t, [f EXCEPT !.pc = "sw_iter", !.file_path = NoPath,
                                 !.ifc_caller = "none", !.complete = FALSE,
                                 !.files_to_process = Append(@, f.file_path)])
            /\ downloading_files' = downloading_files
       ELSE /\ Step(t, [f EXCEPT !.pc = "sw_iter", !.file_path = NoPath,
                                 !.ifc_caller = "none"])
            /\ downloading_files' = MapSet(downloading_files, f.file_path, f.current_time)
    /\ UNCHANGED << fs, dirs, settings_file, downloading_files_lock, now, downloads, events, saves >>

\* A sweep that ends without deleting the entries it marked.
SwRemoveKeeps(t) ==
    /\ th[t].pc = "sw_iter"
    /\ th[t].todo = {}
    /\ downloading_files' = downloading_files
    /\ Release(t)
    /\ Step(t, [th[t] EXCEPT !.pc = "sw_process", !.files_to_remove = {},
                             !.current_time = 0])
    /\ UNCHANGED << fs, dirs, settings_file, now, downloads, events, saves >>

\* Lines 396-398 and the end of the "with" block: the vanished files leave
\* the map and the lock is released.
SwRemove(t) ==
    /\ th[t].pc = "sw_iter"
    /\ th[t].todo = {}
    /\ downloading_files' = MapDel(downloading_files, th[t].files_to_remove)
    /\ Release(t)
    /\ Step(t, [th[t] EXCEPT !.pc = "sw_process", !.files_to_remove = {},
                             !.current_time = 0])
    /\ UNCHANGED << fs, dirs, settings_file, now, downloads, events, saves >>

\* Lines 401-402: process_new_file for each file found stable, in order.
SwProcess(t) ==
    /\ th[t].pc = "sw_process"
    /\ LET f == th[t] IN
       IF f.files_to_process = <<>>
       THEN Step(t, IdleFrame)
       ELSE Step(t, [IdleFrame EXCEPT !.pc = "pnf_exists", !.origin = "sweep",
                                      !.file_path = Head(f.files_to_process),
                                      !.files_to_process = Tail(f.files_to_process)])
    /\ UNCHANGED << fs, dirs, settings_file, downloading_files, downloading_files_lock,
                    now, downloads, events, saves >>

\* -------------------------------------------------------- DownloadHandler

\* on_created, lines 407-410: a file event starts process_new_file.
OnCreated(p, is_directory) ==
    /\ th["watcher"].pc = "idle"
    /\ events < MaxEvents
    /\ events' = events + 1
    /\ IF is_directory
       THEN UNCHANGED th
       ELSE Step("watcher", [IdleFrame EXCEPT !.pc = "pnf_exists", !.origin = "event",
                                              !.file_path = p])
    /\ UNCHANGED << fs, dirs, settings_file, downloading_files, downloading_files_lock,
                    now, downloads, saves >>

\* on_modified, lines 412-416: a file event takes the lock.
OnModified(p, is_directory) ==
    /\ th["watcher"].pc = "idle"
    /\ events < MaxEvents
    /\ events' = events + 1
    /\ IF is_directory
       THEN UNCHANGED th
       ELSE Step("watcher", [IdleFrame EXCEPT !.pc = "mod_lock", !.file_path = p])
    /\ UNCHANGED << fs, dirs, settings_file, downloading_files, downloading_files_lock,
                    now, downloads, saves >>

ModLock(t) ==
    /\ th[t].pc = "mod_lock"
    /\ Acquire(t)
    /\ Step(t, [th[t] EXCEPT !.pc = "mod_read"])
    /\ UNCHANGED << fs, dirs, settings_file, downloading_files, now, downloads, events, saves >>

\* An on_modified that hands a tracked path to process_new_file.
ModReadProcesses(t) ==
    /\ th[t].pc = "mod_read"
    /\ Release(t)
    /\ IF th[t].file_path \in DOMAIN downloading_files
       THEN Step(t, [IdleFrame EXCEPT !.pc = "pnf_exists", !.origin = "event",
                                      !.file_path = th[t].file_path])
       ELSE Step(t, IdleFrame)
    /\ UNCHANGED << fs, dirs, settings_file, downloading_files, now, downloads, events, saves >>

\* Lines 417-419: the map is read (a message is printed) and the lock released.
ModRead(t) ==
    /\ th[t].pc = "mod_read"
    /\ Release(t)
    /\ Step(t, IdleFrame)
    /\ UNCHANGED << fs, dirs, settings_file, downloading_files, now, downloads, events, saves >>

\* ----------------------------------------------------------- specification

Environment ==
    \/ \E p \in SrcPaths : Download(p)
    \/ \E p \in SrcPaths : Write(p)
    \/ \E p \in SrcPaths : Delete(p)
    \/ Tick

Events ==
    \/ \E p \in SrcPaths, d \in BOOLEAN : OnCreated(p, d)
    \/ \E p \in SrcPaths, d \in BOOLEAN : OnModified(p, d)
    \/ TimerFires
    \/ ShowWindow
    \/ \E s \in UISettings : SaveSettingsUI(s)

ThreadStep(t) ==
    \/ PnfExists(t)
    \/ IfcFirst(t)
    \/ IfcSecond(t)
    \/ PnfQueueLock(t)
    \/ PnfQueue(t)
    \/ PnfUnlistLock(t)
    \/ PnfUnlist(t)
    \/ LsLoad(t)
    \/ SaveOpen(t)
    \/ SaveWrite(t)
    \/ Extract(t)
    \/ Keywords(t)
    \/ RsScan(t)
    \/ RsMove(t)
    \/ Return(t)
    \/ SwLock(t)
    \/ SwIter(t)
    \/ SwTested(t)
    \/ SwRemove(t)
    \/ SwProcess(t)
    \/ ModLock(t)
    \/ ModRead(t)

Next ==
    \/ Environment
    \/ Events
    \/ \E t \in Threads : ThreadStep(t)

Spec == Init /\ [][Next]_vars


(* The same system with its handlers run one at a time: the environment and
   the events act only while both threads are idle, so no placement overlaps
   another and no file changes under a running handler.  The watched folder
   may hold the category folder of an earlier run. *)
Quiescent == \A t \in Threads : th[t].pc = "idle"

EarlierPlaced ==
    { MkPath(Append(DOWNLOADS_FOLDER, <<"PDF">>), <<"a">>, ".pdf"),
      MkPath(Append(DOWNLOADS_FOLDER, <<"PDF">>), <<"a", "_", "1">>, ".pdf") }

InitSeq ==
    /\ \E old \in SUBSET EarlierPlaced : fs = [p \in old |-> MaxSize]
    /\ dirs = {HOME, DOWNLOADS_FOLDER, Append(DOWNLOADS_FOLDER, <<"PDF">>)}
    /\ settings_file \in StartSettings
    /\ downloading_files = [p \in {} |-> 0]
    /\ downloading_files_lock = NoThread
    /\ now = 0
    /\ downloads = 0
    /\ events = 0
    /\ saves = 0
    /\ th = [t \in Threads |-> IdleFrame]

NextSeq ==
    \/ Quiescent /\ Environment
    \/ Quiescent /\ Events
    \/ \E t \in Threads : ThreadStep(t)

SpecSeq == InitSeq /\ [][NextSeq]_vars

\* ------------------------------------------------------------------ claims

\* Thread t takes this step.
Steps(t) == th'[t] # th[t]

\* The category process_new_file computes for a path.
CategoryOf(path) == get_category_for_extension(Lower(path.ext))

\* The category is switched off in the record settings.json holds.
DisabledOnDisk(category) ==
    /\ settings_file.kind = "ok"
    /\ category \in DOMAIN settings_file.file_types
    /\ ~ settings_file.file_types[category]

(* C1 (as claimed): gate permanence.  No step inserts into downloading_files
   the path of a file whose category is disabled in settings.json, and no step
   moves such a file, whether or not the file is stable when it arrives. *)
C1_GatePermanence ==
    [][ \A t \in Threads :
          LET p == th[t].file_path IN
          (Steps(t) /\ p # NoPath /\ DisabledOnDisk(CategoryOf(p)))
            => /\ ~ (p \notin DOMAIN downloading_files /\ p \in DOMAIN downloading_files')
               /\ ~ (th[t].pc = "rs_move" /\ th'[t].outcome = "moved") ]_vars

(* C2 (as claimed): no overwrite.  In every interleaving of the two threads,
   no move of rename_and_sort_file lands on a path that holds a file at the
   moment of the move. *)
C2_NoOverwrite ==
    \A t \in Threads : th[t].pc = "pnf_end" => ~ th[t].overwrote

\* The k-th path of the collision scan: base+ext for 0, base_k+ext for k >= 1.
ScanPath(f, k) ==
    IF k = 0
    THEN MkPath(f.target_folder, f.new_base_name, f.file_path.ext)
    ELSE MkPath(f.target_folder, f.new_base_name \o <<"_", Str(k)>>, f.file_path.ext)

ScanTaken(f, k) == Resolve(ScanPath(f, k)) \in DOMAIN fs

\* More than the files a run can hold.
ScanLimit == Cardinality(DOMAIN fs) + 1

(* C3: collision safety.  With placements made one after another, the path
   chosen by the scan is base+ext when that is free, and otherwise base_k+ext
   for the smallest k >= 1 whose path is free: a function of the directory
   contents at the start of the scan.  A file that was moved is at that path. *)
C3_SmallestFreeSuffix ==
    \A t \in Threads :
      LET f == th[t] IN
      /\ f.pc = "rs_move" =>
           \E k \in 0..ScanLimit :
             /\ f.new_file_path = ScanPath(f, k)
             /\ ~ ScanTaken(f, k)
             /\ \A j \in 0..(k - 1) : ScanTaken(f, j)
      /\ (f.pc = "pnf_end" /\ f.outcome = "moved") =>
           /\ Resolve(f.new_file_path) \in DOMAIN fs
           /\ ~ f.overwrote
           /\ \E k \in 0..ScanLimit : f.new_file_path = ScanPath(f, k)

\* C3's case: a third colliding file has been moved to base_2+ext, the first
\* two being at base+ext and base_1+ext.
C3_Witness ==
    \E t \in Threads :
      /\ th[t].pc = "pnf_end"
      /\ th[t].outcome = "moved"
      /\ th[t].new_file_path = ScanPath(th[t], 2)
      /\ ScanTaken(th[t], 0)
      /\ ScanTaken(th[t], 1)

(* C4 (as claimed): rename gating.  Whenever rename_and_sort_file read
   rename_files = false, the base name of the path the file was moved to is
   the base name of the source file. *)
C4_RenameGating ==
    \A t \in Threads :
      LET f == th[t] IN
      (/\ f.pc = "pnf_end"
       /\ f.outcome = "moved"
       /\ ~ f.current_settings.rename_files)
        => Resolve(f.new_file_path).base = f.file_path.base

(* C5 (as claimed): folder gating.  Whenever rename_and_sort_file read
   organize_folders = false, the directory of the path the file was moved to
   is DOWNLOADS_FOLDER. *)
C5_FolderGating ==
    \A t \in Threads :
      LET f == th[t] IN
      (/\ f.pc = "pnf_end"
       /\ f.outcome = "moved"
       /\ ~ f.current_settings.organize_folders)
        => Resolve(f.new_file_path).dir = DOWNLOADS_FOLDER

(* C6 (as claimed): no-keywords uniformity.  A call for a stable file of an
   enabled keyword-capable category that ends without keywords has handed the
   file to rename_and_sort_file under its original base name, whether the
   excerpt was empty or the keyword service gave nothing. *)
C6_NoKeywordsUniform ==
    \A t \in Threads :
      LET f == th[t] IN
      (/\ f.pc = "pnf_end"
       /\ f.category \in KeywordCategories
       /\ f.outcome \in {"no_text", "moved", "move_failed"}
       /\ f.keywords = <<>>)
        => /\ f.outcome \in {"moved", "move_failed"}
           /\ f.new_base_name = f.file_path.base

(* C7 (as claimed): no thread holds downloading_files_lock while it is in the
   quiescence sleep of is_file_complete or in the keyword-service call. *)
C7_LockNotHeldWhileBlocking ==
    \A t \in Threads :
      th[t].pc \in {"ifc_second", "keywords"} => downloading_files_lock # t

(* C8: mutual exclusion on the pending map.  A thread that is about to read,
   insert into, refresh or delete from downloading_files holds
   downloading_files_lock, so two threads are never at the map together. *)
C8_MapAccessUnderLock ==
    /\ \A t \in Threads : th[t].pc \in MapAccessPcs => downloading_files_lock = t
    /\ \A t, u \in Threads :
         (th[t].pc \in MapAccessPcs /\ th[u].pc \in MapAccessPcs) => t = u

\* C8's case: the watcher is inside the insert of process_new_file while the
\* sweep waits for the lock.
C8_Witness ==
    /\ th["watcher"].pc = "pnf_queue"
    /\ th["main"].pc = "sw_lock"
    /\ downloading_files_lock = "watcher"

\* load_settings returns to the pipeline in this step of t.
LoadReturns(t) ==
    /\ th[t].pc \in {"ls_load", "save_open", "save_write"}
    /\ th[t].ls_caller \in {"gate", "place"}
    /\ Steps(t)
    /\ th'[t].pc \notin {"save_open", "save_write"}

\* The record load_settings returned in this step of t.
Loaded(t) ==
    IF th[t].ls_caller = "gate" THEN th'[t].settings ELSE th'[t].current_settings

(* C9 (as claimed): settings fallback.  Whenever load_settings finds the file
   absent, unreadable or malformed, it returns the default record and the
   default record is in settings.json when it returns. *)
C9_FallbackPersisted ==
    [][ \A t \in Threads :
          (LoadReturns(t) /\ th'[t].ls_found \in {"absent", "bad"})
            => /\ Loaded(t) = DEFAULT_SETTINGS
               /\ settings_file' = DEFAULT_SETTINGS ]_vars

(* C10: settings freshness.  Each of the two reads made for an arrival, the
   gate's and the placement's, returns the record that settings.json holds at
   that moment (the last save that wrote its record), and the gate, the base
   name and the folder are decided from that record. *)
C10_SettingsFresh ==
    [][ \A t \in Threads :
          (LoadReturns(t) /\ th[t].pc = "ls_load" /\ settings_file.kind = "ok")
            => /\ Loaded(t) = settings_file
               /\ th[t].ls_caller = "gate" =>
                    ((th'[t].outcome = "gated")
                       <=> ~ settings_file.file_types[th[t].category])
               /\ th[t].ls_caller = "place" =>
                    /\ th'[t].new_base_name =
                         (IF settings_file.rename_files /\ th[t].keywords # <<>>
                          THEN JoinUnderscore(th[t].keywords)
                          ELSE th[t].file_path.base)
                    /\ th'[t].target_folder =
                         (IF settings_file.organize_folders
                          THEN Append(DOWNLOADS_FOLDER, <<th[t].category>>)
                          ELSE DOWNLOADS_FOLDER) ]_vars

\* C10's case: the preferences were saved with renaming and folders switched
\* off, and a placement started afterwards has read exactly that record.
C10_Witness ==
    \E t \in Threads :
      /\ th[t].pc = "rs_scan"
      /\ saves = 1
      /\ settings_file.kind = "ok"
      /\ ~ settings_file.rename_files
      /\ ~ settings_file.organize_folders
      /\ th[t].current_settings = settings_file
      /\ th[t].keywords # <<>>
      /\ th[t].new_base_name = th[t].file_path.base
      /\ th[t].target_folder = DOWNLOADS_FOLDER

\* The preferences window is inside save_settings.
SavingPreferences ==
    /\ th["main"].pc \in {"save_open", "save_write"}
    /\ th["main"].save_caller = "ui"

\* The last record committed before the save in progress: the content the
\* save found, or still the content of the file while the save has not opened it.
Committed ==
    IF th["main"].pc = "save_write" THEN th["main"].replaced ELSE settings_file

(* C11 (as claimed): committed-snapshot reads.  A load_settings call of the
   pipeline that reads settings.json while the preferences window is saving
   over a committed record returns that record or the record being saved. *)
C11_CommittedSnapshot ==
    [][ \A t \in Threads :
          (/\ LoadReturns(t)
           /\ th[t].pc = "ls_load"
           /\ SavingPreferences
           /\ Committed.kind = "ok")
            => Loaded(t) \in {Committed, th["main"].to_save} ]_vars

\* Thread t takes a step of a process_new_file call made by the sweep.
SweepHandling(t) == th[t].origin = "sweep" /\ Steps(t)

\* The ways a process_new_file call ends after its stability check passed.
PlacementOutcomes == {"gated", "no_text", "moved", "move_failed"}

(* C12 (as claimed): pending to processed.  The process_new_file call a sweep
   makes for a file it found stable never inserts the path into
   downloading_files, and never returns with the entry still in the map. *)
C12_SweepAlwaysRemoves ==
    [][ \A t \in Threads :
          SweepHandling(t) =>
            /\ th[t].pc # "pnf_queue"
            /\ (th'[t].pc = "pnf_end" /\ th'[t].outcome = "absent")
                 => th[t].file_path \notin DOMAIN downloading_files' ]_vars

(* C12 (amended): when the file a sweep found stable still exists and passes
   the stability check process_new_file makes again, the sweep deletes the
   entry and no later step of that call touches the map, whatever placement
   does; the call inserts the path, with the current time, only after that
   second check failed, and a call that ends in a placement outcome has
   passed it. *)
C12_SweepRemovesAfterRecheck ==
    [][ \A t \in Threads :
          SweepHandling(t) =>
            /\ th[t].pc = "pnf_unlist" =>
                 /\ th[t].complete
                 /\ th[t].file_path \notin DOMAIN downloading_files'
            /\ th[t].pc = "pnf_queue" =>
                 /\ ~ th[t].complete
                 /\ downloading_files' = MapSet(downloading_files, th[t].file_path, now)
            /\ th[t].pc \notin {"pnf_queue", "pnf_unlist"} =>
                 downloading_files' = downloading_files
            /\ th'[t].pc = "pnf_end" =>
                 (th'[t].complete <=> th'[t].outcome \in PlacementOutcomes) ]_vars

\* C12's case: the sweep's call has ended in a failed move and the entry of
\* its file is gone from the map.
C12_Witness ==
    \E t \in Threads :
      /\ th[t].pc = "pnf_end"
      /\ th[t].origin = "sweep"
      /\ th[t].outcome = "move_failed"
      /\ th[t].file_path \notin DOMAIN downloading_files

\* Thread t is inside the "with" block of check_pending_downloads.
InSweepLoop(f) == f.pc = "sw_iter" \/ f.ifc_caller = "sweep"

\* This step of t is the sweep's look at the entry of p (lines 382-394).
Examines(t, p) ==
    /\ th[t].pc = "sw_iter"
    /\ p \in th[t].todo
    /\ p \notin th'[t].todo

\* The entry of p is older than the grace period for the sweep of t.
Expired(t, p) == th[t].current_time - downloading_files[p] > PendingGrace

\* What a sweep marks for removal stays marked until the end of the "with"
\* block, where exactly the marked entries leave the map.
MarkedAreRemoved(t) ==
    /\ (InSweepLoop(th[t]) /\ InSweepLoop(th'[t]))
         => th[t].files_to_remove \subseteq th'[t].files_to_remove
    /\ (th[t].pc = "sw_iter" /\ th'[t].pc = "sw_process")
         => DOMAIN downloading_files' = DOMAIN downloading_files \ th[t].files_to_remove

(* C13 (as claimed): pending to abandoned.  Every entry whose file does not
   exist when the sweep examines it is marked by that sweep, and the marked
   entries are out of the map when the sweep releases the lock. *)
C13_VanishedAlwaysRemoved ==
    [][ \A t \in Threads :
          /\ MarkedAreRemoved(t)
          /\ \A p \in DOMAIN downloading_files :
               (Examines(t, p) /\ p \notin DOMAIN fs)
                 => p \in th'[t].files_to_remove ]_vars

(* C13 (amended): every entry older than the grace period whose file does
   not exist when the sweep examines it is marked by that sweep, and the
   marked entries are out of the map when the sweep releases the lock; an
   entry within the grace period is left alone, its file existing or not. *)
C13_ExpiredVanishedRemoved ==
    [][ \A t \in Threads :
          /\ MarkedAreRemoved(t)
          /\ \A p \in DOMAIN downloading_files :
               Examines(t, p) =>
                 IF Expired(t, p)
                 THEN p \notin DOMAIN fs => p \in th'[t].files_to_remove
                 ELSE /\ th'[t].files_to_remove = th[t].files_to_remove
                      /\ th'[t].pc = "sw_iter" ]_vars

\* C13's case: the sweep has gone through the map and marked an expired
\* entry whose file is gone; the deletion is its next step.
C13_Witness ==
    \E t \in Threads :
      /\ th[t].pc = "sw_iter"
      /\ th[t].todo = {}
      /\ \E p \in th[t].files_to_remove :
           /\ p \in DOMAIN downloading_files
           /\ p \notin DOMAIN fs
           /\ th[t].current_time - downloading_files[p] > PendingGrace

(* C14: unstable entries persist.  An entry leaves downloading_files only in
   the stable branch of process_new_file, after a stability check of its file
   returned true, or at the end of a sweep that found its file missing; so
   the entry of a file that exists and fails every check is never removed.
   A sweep whose re-test of an entry fails gives the entry the sweep's
   current_time as its timestamp. *)
C14_UnstableEntriesPersist ==
    [][ \A p \in DOMAIN downloading_files :
          /\ p \notin DOMAIN downloading_files' =>
               \E t \in Threads :
                 /\ Steps(t)
                 /\ \/ /\ th[t].pc = "pnf_unlist"
                       /\ th[t].file_path = p
                       /\ th[t].complete
                    \/ /\ th[t].pc = "sw_iter"
                       /\ p \in th[t].files_to_remove
          /\ \A t \in Threads :
               /\ (p \in th'[t].files_to_remove /\ p \notin th[t].files_to_remove)
                    => p \notin DOMAIN fs
               /\ (Steps(t) /\ th[t].pc = "ifc_second" /\ th'[t].complete)
                    => (th[t].file_path \in DOMAIN fs
                        /\ fs[th[t].file_path] = th[t].initial_size)
               /\ (Steps(t) /\ th[t].pc = "ifc_first") => ~ th'[t].complete
               /\ (Steps(t) /\ th[t].pc = "sw_tested" /\ th[t].file_path = p
                      /\ ~ th[t].complete)
                    => /\ p \in DOMAIN downloading_files'
                       /\ downloading_files'[p] = th[t].current_time ]_vars

\* C14's case: a sweep has re-tested an expired entry whose file exists and
\* the test has failed; the refresh of the timestamp is its next step.
C14_Witness ==
    \E t \in Threads :
      /\ th[t].pc = "sw_tested"
      /\ ~ th[t].complete
      /\ th[t].file_path \in DOMAIN fs
      /\ th[t].file_path \in DOMAIN downloading_files
      /\ th[t].current_time - downloading_files[th[t].file_path] > PendingGrace

(* C15: unseen to pending.  When the stability check made for a created
   event returns false, process_new_file goes to its queueing branch: it
   takes the lock, stores the path with the time of that moment, leaving the
   other entries, the files and settings.json as they are, and returns; it
   has computed no category, read no settings, asked for no keywords and
   chosen no destination. *)
C15_UnstableArrivalQueued ==
    [][ \A t \in Threads :
          (Steps(t) /\ th[t].origin = "event") =>
            LET f == th[t]  g == th'[t]  p == th[t].file_path IN
            /\ (f.pc \in {"ifc_first", "ifc_second"} /\ g.pc # "ifc_second" /\ ~ g.complete)
                 => g.pc = "pnf_queue_lock"
            /\ f.pc = "pnf_queue_lock" =>
                 /\ g.pc = "pnf_queue"
                 /\ downloading_files' = downloading_files
            /\ f.pc = "pnf_queue" =>
                 /\ DOMAIN downloading_files' = DOMAIN downloading_files \cup {p}
                 /\ downloading_files'[p] = now
                 /\ \A q \in DOMAIN downloading_files \ {p} :
                      downloading_files'[q] = downloading_files[q]
                 /\ g.pc = "pnf_end"
                 /\ g.outcome = "queued"
            /\ f.pc \in {"pnf_queue_lock", "pnf_queue"} =>
                 /\ UNCHANGED << fs, dirs, settings_file >>
                 /\ g.category = ""
                 /\ g.ls_found = "none"
                 /\ g.keywords = <<>>
                 /\ g.new_file_path = NoPath
            /\ (f.pc = "pnf_end" /\ f.outcome = "queued") => g.pc = "idle" ]_vars

\* C15's case: a created event for an existing file has ended with the path
\* queued at the current time, later than the start of the run.
C15_Witness ==
    LET f == th["watcher"] IN
    /\ f.pc = "pnf_end"
    /\ f.origin = "event"
    /\ f.outcome = "queued"
    /\ f.file_path \in DOMAIN fs
    /\ f.file_path \in DOMAIN downloading_files
    /\ now > 0
    /\ downloading_files[f.file_path] = now

\* The observer delivers an event in this step.
Delivered == events' # events

(* C17: event filtering.  The watcher leaves its idle state only by a
   delivered event; the only delivery that starts process_new_file is a
   created event for a file, every other delivery leaves the watcher idle
   (a directory) or takes it into on_modified, and on_modified changes
   neither the map nor the files and ends idle without a stability check or
   any processing. *)
C17_EventFiltering ==
    [][ LET w == th["watcher"]  v == th'["watcher"] IN
        /\ (w.pc = "idle" /\ v # w) =>
             /\ Delivered
             /\ v.pc \in {"pnf_exists", "mod_lock"}
             /\ v.pc = "pnf_exists" => v.origin = "event"
        /\ Delivered =>
             /\ w.pc = "idle"
             /\ v.pc \in {"idle", "pnf_exists", "mod_lock"}
             /\ UNCHANGED << fs, dirs, downloading_files, settings_file >>
        /\ (w.pc \in {"mod_lock", "mod_read"} /\ v # w) =>
             /\ v.pc = IF w.pc = "mod_lock" THEN "mod_read" ELSE "idle"
             /\ UNCHANGED << fs, dirs, downloading_files, settings_file >> ]_vars

\* C17's case: a modified event for a path that is in the pending map is
\* being handled: the watcher holds the lock and is about to read the map.
C17_Witness ==
    LET w == th["watcher"] IN
    /\ w.pc = "mod_read"
    /\ w.file_path \in DOMAIN downloading_files
    /\ w.file_path \in DOMAIN fs

\* is_file_complete returns in this step of t.
IfcReturns(t) ==
    /\ th[t].pc \in {"ifc_first", "ifc_second"}
    /\ Steps(t)
    /\ th'[t].pc # "ifc_second"

(* C18: the result of the stability check.  is_file_complete returns true
   only from its second sample, when the file exists there with the size of
   the first sample; it returns false when the file is absent at the first
   sample, absent at the second or of another size.  It always returns to
   its caller: process_new_file or the sweep goes on with the result. *)
C18_StabilityResult ==
    [][ \A t \in Threads :
          LET f == th[t]  g == th'[t]  p == th[t].file_path IN
          /\ IfcReturns(t) =>
               /\ g.complete =>
                    /\ f.pc = "ifc_second"
                    /\ f.initial_size >= 0
                    /\ p \in DOMAIN fs
                    /\ fs[p] = f.initial_size
               /\ (f.pc = "ifc_first" /\ p \notin DOMAIN fs) => ~ g.complete
               /\ (f.pc = "ifc_second" /\ p \notin DOMAIN fs) => ~ g.complete
               /\ (f.pc = "ifc_second" /\ p \in DOMAIN fs /\ fs[p] # f.initial_size)
                    => ~ g.complete
               /\ g.pc = IF f.ifc_caller = "sweep" THEN "sw_tested"
                         ELSE IF g.complete THEN "pnf_unlist_lock" ELSE "pnf_queue_lock"
          /\ (Steps(t) /\ f.pc = "ifc_first" /\ g.pc = "ifc_second")
               => (p \in DOMAIN fs /\ g.initial_size = fs[p]) ]_vars

\* C18's case: the check has returned false for a file that existed when
\* process_new_file looked and has vanished since.
C18_Witness ==
    \E t \in Threads :
      /\ th[t].pc = "pnf_queue_lock"
      /\ ~ th[t].complete
      /\ th[t].file_path \notin DOMAIN fs

(* The arrival of one file of any of many kinds, handled by the watcher: one
   extension of every category, extensions in other letter cases, and
   extensions of no category (the empty one among them). *)
ClassifyExts ==
    { ".pdf", ".png", ".zip", ".py", ".csv", ".iso", ".md", ".mkv", ".m4a", ".key", ".sh",
      ".PDF", ".Zip", ".JPeG", ".Py", ".KEY",
      "", ".xyz", ".XYZ", ".pd" }

ClassifyPaths == { MkPath(DOWNLOADS_FOLDER, <<"a">>, e) : e \in ClassifyExts }

PipelineStep(t) ==
    \/ PnfExists(t)
    \/ IfcFirst(t)
    \/ IfcSecond(t)
    \/ PnfQueueLock(t)
    \/ PnfQueue(t)
    \/ PnfUnlistLock(t)
    \/ PnfUnlist(t)
    \/ LsLoad(t)
    \/ SaveOpen(t)
    \/ SaveWrite(t)
    \/ Extract(t)
    \/ Keywords(t)
    \/ RsScan(t)
    \/ RsMove(t)
    \/ Return(t)

\* The file has been downloaded, completely or not, when the run starts.
InitClassify ==
    /\ \E p \in ClassifyPaths, size \in 0..MaxSize : fs = [q \in {p} |-> size]
    /\ dirs = {HOME, DOWNLOADS_FOLDER}
    /\ settings_file \in StartSettings
    /\ downloading_files = [p \in {} |-> 0]
    /\ downloading_files_lock = NoThread
    /\ now = 0
    /\ downloads = 1
    /\ events = 0
    /\ saves = 0
    /\ th = [t \in Threads |-> IdleFrame]

NextClassify ==
    \/ Quiescent /\ \E p \in ClassifyPaths : OnCreated(p, FALSE)
    \/ PipelineStep("watcher")

SpecClassify == InitClassify /\ [][NextClassify]_vars

\* The category each extension of ClassifyExts belongs to, read off the
\* lists of FILE_TYPES by hand.
ExpectedCategory ==
    [ e \in ClassifyExts |->
        CASE e \in {".pdf", ".PDF"} -> "PDF"
          [] e \in {".png", ".JPeG"} -> "Images"
          [] e \in {".zip", ".Zip"} -> "Archives"
          [] e \in {".py", ".Py"} -> "Code"
          [] e = ".csv" -> "Spreadsheets"
          [] e = ".iso" -> "Disk Images"
          [] e = ".md" -> "Documents"
          [] e = ".mkv" -> "Videos"
          [] e = ".m4a" -> "Audio"
          [] e \in {".key", ".KEY"} -> "Presentations"
          [] e = ".sh" -> "Executables"
          [] OTHER -> "Other" ]

(* C19: classification totality.  get_category_for_extension gives a result
   for every extension: the category whose list holds the extension, in
   whatever letter case it is written, and "Other" for every extension in
   no list, the empty one included; the category process_new_file computes
   for the file in hand is that result. *)
C19_ClassificationTotal ==
    /\ \A c \in Categories : \A e \in FILE_TYPES[c] : get_category_for_extension(e) = c
    /\ \A e \in ClassifyExts : get_category_for_extension(e) = ExpectedCategory[e]
    /\ \A t \in Threads :
         th[t].category # "" => th[t].category = ExpectedCategory[th[t].file_path.ext]

\* C19's case: a file whose extension is a mixed-case spelling of an Images
\* extension has been classified and placed in the Images folder.
C19_Witness ==
    /\ MkPath(Append(DOWNLOADS_FOLDER, <<"Images">>), <<"a">>, ".JPeG") \in DOMAIN fs
    /\ th["watcher"].file_path.ext = ".JPeG"
    /\ th["watcher"].category = "Images"
    /\ th["watcher"].outcome = "moved"

\* get_category_for_extension with the table gone through from its last
\* entry to its first.
RECURSIVE CategoryFromLast(_, _)
CategoryFromLast(i, ext) ==
    IF i < 1 THEN "Other"
    ELSE IF Lower(ext) \in FILE_TYPES[FILE_TYPES_KEYS[i]] THEN FILE_TYPES_KEYS[i]
    ELSE CategoryFromLast(i - 1, ext)

(* C20: category table disjointness.  No extension is in the lists of two
   categories of FILE_TYPES, and going through the table in the opposite
   order gives the same category, for the extensions of the table and for
   the file process_new_file has classified. *)
C20_TableDisjoint ==
    /\ \A c, d \in Categories : c # d => FILE_TYPES[c] \cap FILE_TYPES[d] = {}
    /\ \A c \in Categories : \A e \in FILE_TYPES[c] :
         CategoryFromLast(Len(FILE_TYPES_KEYS), e) = get_category_for_extension(e)
    /\ \A t \in Threads :
         th[t].category # "" =>
           th[t].category = CategoryFromLast(Len(FILE_TYPES_KEYS), th[t].file_path.ext)

\* C20's case: a file with the Presentations extension .key has been
\* classified and placed.
C20_Witness ==
    /\ th["watcher"].pc = "pnf_end"
    /\ th["watcher"].outcome = "moved"
    /\ th["watcher"].category = "Presentations"
    /\ Lower(th["watcher"].file_path.ext) = ".key"

(* The deferred handling of one archive, downloaded once, with time that
   never stops.  The clock counts up to its bound; from there on a step of
   time moves every stored timestamp one step into the past instead (an
   entry two steps old or older stays two steps old), which keeps every age
   the sweep compares with the grace period.  Such a step waits for a sweep
   to leave its "with" block, where current_time is held.  No size query and
   no move fails for a reason other than the state of the files. *)
LivePaths == { MkPath(DOWNLOADS_FOLDER, <<"archive">>, ".zip") }

Elapse ==
    /\ IF now < MaxTicks * ClockStep
       THEN /\ now' = now + ClockStep
            /\ downloading_files' = downloading_files
       ELSE /\ \A t \in Threads : ~ InSweepLoop(th[t])
            /\ now' = now
            /\ downloading_files' =
                 [p \in DOMAIN downloading_files |->
                    IF downloading_files[p] >= ClockStep
                    THEN downloading_files[p] - ClockStep ELSE 0]
    /\ UNCHANGED << fs, dirs, settings_file, downloading_files_lock, downloads, events,
                    saves, th >>

\* A size query or a move fails in this step of t although the files allow it.
Fault(t) ==
    LET f == th[t]  g == th'[t] IN
    \/ /\ f.pc = "ifc_first"
       /\ f.file_path \in DOMAIN fs
       /\ g.pc # "ifc_second"
    \/ /\ f.pc = "ifc_second"
       /\ f.file_path \in DOMAIN fs
       /\ fs[f.file_path] = f.initial_size
       /\ ~ g.complete
    \/ /\ f.pc = "rs_move"
       /\ f.file_path \in DOMAIN fs
       /\ Resolve(f.new_file_path).dir \in dirs
       /\ g.outcome = "move_failed"

\* The steps of a thread that handles a file of a category without keywords.
LiveStep(t) ==
    \/ PnfExists(t)
    \/ IfcFirst(t)
    \/ IfcSecond(t)
    \/ PnfQueueLock(t)
    \/ PnfQueue(t)
    \/ PnfUnlistLock(t)
    \/ PnfUnlist(t)
    \/ LsLoad(t)
    \/ SaveOpen(t)
    \/ SaveWrite(t)
    \/ RsScan(t)
    \/ RsMove(t)
    \/ Return(t)
    \/ SwLock(t)
    \/ SwIter(t)
    \/ SwTested(t)
    \/ SwRemove(t)
    \/ SwProcess(t)

NextLive ==
    \/ \E p \in LivePaths : downloads = 0 /\ Download(p)
    \/ \E p \in LivePaths : Write(p)
    \/ Elapse
    \/ \E p \in LivePaths : OnCreated(p, FALSE)
    \/ TimerFires
    \/ \E t \in Threads : LiveStep(t) /\ ~ Fault(t)

(* Time passes again and again, the timer fires whenever the main thread is
   idle long enough, and a thread that can go on does. *)
SpecLive ==
    /\ Init
    /\ [][NextLive]_vars
    /\ SF_vars(Elapse)
    /\ WF_vars(TimerFires)
    /\ \A t \in Threads : WF_vars(LiveStep(t) /\ ~ Fault(t))

\* Where an archive of the watched folder goes when nothing else has its name.
PlacedArchive(p) == MkPath(Append(DOWNLOADS_FOLDER, <<"Archives">>), p.base, p.ext)

\* A call of process_new_file is in rename_and_sort_file.
Placing(f) == f.pc \in {"rs_scan", "rs_move"}

(* C16: deferred processing is live.  Once the path of an archive is in
   downloading_files, with writes that come to an end, a file that is not
   deleted, time that passes and a timer that keeps firing, a state follows
   in which the entry has left the map, no file has the path and
   <root>/Archives/<original name> exists; and every call that reaches
   rename_and_sort_file, and so every move, comes after a stability check of
   that call returned true. *)
C16_DeferredIsLive ==
    /\ \A p \in LivePaths :
         (p \in DOMAIN downloading_files)
           ~> (/\ p \notin DOMAIN downloading_files
               /\ p \notin DOMAIN fs
               /\ PlacedArchive(p) \in DOMAIN fs)
    /\ [](\A t \in Threads : Placing(th[t]) => th[t].complete)

\* C16's case: a sweep has moved a file that waited in the map to the
\* Archives folder under its own name, and the entry is gone.
C16_Witness ==
    \E t \in Threads :
      /\ th[t].pc = "pnf_end"
      /\ th[t].origin = "sweep"
      /\ th[t].outcome = "moved"
      /\ th[t].file_path \in LivePaths
      /\ th[t].new_file_path = PlacedArchive(th[t].file_path)
      /\ PlacedArchive(th[t].file_path) \in DOMAIN fs
      /\ th[t].file_path \notin DOMAIN downloading_files

(* The arrival of one file under settings.json contents of many shapes: no
   file, a damaged one, the defaults, every entry false ("Other" among the entries), an object
   without file_types, without any key, with an empty file_types, with
   file_types short of the Archives entry, with a file_types that is not an
   object, and a file that parses to a value that is not an object.  One of
   the files has the name of a category folder. *)
ShapePaths ==
    { MkPath(DOWNLOADS_FOLDER, <<"a">>, ".pdf"),
      MkPath(DOWNLOADS_FOLDER, <<"a">>, ".zip"),
      MkPath(DOWNLOADS_FOLDER, <<"a">>, ".xyz"),
      MkPath(DOWNLOADS_FOLDER, <<"Other">>, "") }

ShapeSettings ==
    { AbsentFile, BadFile, DEFAULT_SETTINGS,
      MkSettings(TRUE, TRUE, [c \in Categories \cup {"Other"} |-> FALSE]),
      [kind |-> "ok", rename_files |-> TRUE, organize_folders |-> TRUE],
      [kind |-> "ok"],
      MkSettings(TRUE, FALSE, EmptyObject),
      MkSettings(FALSE, TRUE, [c \in Categories \ {"Archives"} |-> FALSE]),
      MkSettings(TRUE, TRUE, NotAnObject),
      ValueFile }

InitShapes ==
    /\ \E p \in ShapePaths, size \in 0..MaxSize : fs = [q \in {p} |-> size]
    /\ dirs = {HOME, DOWNLOADS_FOLDER}
    /\ settings_file \in ShapeSettings
    /\ downloading_files = [p \in {} |-> 0]
    /\ downloading_files_lock = NoThread
    /\ now = 0
    /\ downloads = 1
    /\ events = 0
    /\ saves = 0
    /\ th = [t \in Threads |-> IdleFrame]

NextShapes ==
    \/ Quiescent /\ \E p \in ShapePaths : OnCreated(p, FALSE)
    \/ PipelineStep("watcher")
    \/ Unwind("watcher")

SpecShapes == InitShapes /\ [][NextShapes]_vars

\* The gate's load_settings call of t returns what it read from an object.
GateReads(t) ==
    /\ LoadReturns(t)
    /\ th[t].pc = "ls_load"
    /\ th[t].ls_caller = "gate"
    /\ settings_file.kind = "ok"

\* The file goes on from the gate to its processor.
PassesGate(t) ==
    /\ th'[t].outcome = "none"
    /\ IF th[t].category \in KeywordCategories
       THEN th'[t].pc = "extract"
       ELSE th'[t].pc = "ls_load" /\ th'[t].ls_caller = "place"

(* C21: gate defaults.  When the gate reads an object from settings.json, a
   file classified "Other" goes on to its processor whatever file_types is,
   an entry "Other": false included; a file of a category of FILE_TYPES goes
   on when the object has no file_types, or has a file_types object without
   an entry for the category. *)
C21_GateDefaults ==
    [][ \A t \in Threads :
          GateReads(t) =>
            /\ th[t].category = "Other" => PassesGate(t)
            /\ "file_types" \notin DOMAIN settings_file => PassesGate(t)
            /\ ("file_types" \in DOMAIN settings_file
                  /\ settings_file.file_types # NotAnObject
                  /\ th[t].category \notin DOMAIN settings_file.file_types)
                 => PassesGate(t) ]_vars

\* C21's case: an archive has passed the gate under a record whose
\* file_types has no Archives entry and switches the listed categories off.
C21_Witness ==
    \E t \in Threads :
      /\ th[t].pc = "ls_load"
      /\ th[t].ls_caller = "place"
      /\ th[t].category = "Archives"
      /\ "file_types" \in DOMAIN th[t].settings
      /\ "Archives" \notin DOMAIN th[t].settings.file_types
      /\ ~ th[t].settings.file_types["PDF"]

(* C24 (as claimed): no fatal errors.  No exception leaves process_new_file
   or check_pending_downloads, and no thread ends because of one. *)
C24_NoFatalErrors ==
    \A t \in Threads : th[t].pc \notin {"unwind", "stopped"}

\* shutil.move of t succeeds in this step.
Moves(t) ==
    /\ th[t].pc = "rs_move"
    /\ th'[t].outcome = "moved"

\* The scan of t found its first candidate, base+ext, free.
FirstCandidateFree(f) == f.counter = FirstCounter

\* Where the placement rules send the file of frame f.
PlacementDir(f) ==
    IF f.current_settings.organize_folders
    THEN DOWNLOADS_FOLDER \o << <<f.category>> >>
    ELSE DOWNLOADS_FOLDER

PlacementBase(f) ==
    IF f.current_settings.rename_files /\ Len(f.keywords) > 0
    THEN (IF Len(f.keywords) = 1
          THEN f.keywords[1]
          ELSE f.keywords[1] \o <<"_">> \o f.keywords[2])
    ELSE f.file_path.base

(* C22: the placement formula without collision.  When the first candidate
   of the scan was free and the move succeeds, the file is at dir/base+ext
   with its content and, unless that is its old path, no longer at its old
   path: base is the keywords joined
   by "_" when rename_files is true and there are keywords, else the original
   base name; ext is the original extension; dir is the category folder
   below the watched folder when organize_folders is true, and exists, else
   the watched folder.  a.pdf with keywords acme, invoice and both toggles
   true goes to PDF/acme_invoice.pdf. *)
C22_PlacementFormula ==
    [][ \A t \in Threads :
          (Moves(t) /\ FirstCandidateFree(th[t])) =>
            LET f == th[t]
                dst == MkPath(PlacementDir(f), PlacementBase(f), f.file_path.ext)
            IN  /\ f.new_file_path = dst
                /\ Resolve(dst) \in DOMAIN fs'
                /\ fs'[Resolve(dst)] = fs[f.file_path]
                /\ Resolve(dst) # f.file_path => f.file_path \notin DOMAIN fs'
                /\ PlacementDir(f) \in dirs
                /\ (/\ f.keywords = << <<"acme">>, <<"invoice">> >>
                    /\ f.current_settings.rename_files
                    /\ f.current_settings.organize_folders)
                     => dst = MkPath(<< <<"Downloads">>, <<"PDF">> >>,
                                     <<"acme", "_", "invoice">>, ".pdf") ]_vars

\* C22's case: a.pdf has been moved to PDF/acme_invoice.pdf, which was free.
C22_Witness ==
    \E t \in Threads :
      /\ th[t].pc = "pnf_end"
      /\ th[t].outcome = "moved"
      /\ th[t].counter = FirstCounter
      /\ th[t].new_file_path =
           MkPath(<< <<"Downloads">>, <<"PDF">> >>, <<"acme", "_", "invoice">>, ".pdf")
      /\ th[t].new_file_path \in DOMAIN fs

\* shutil.move of t raises in this step.
MoveFails(t) ==
    /\ th[t].pc = "rs_move"
    /\ Steps(t)
    /\ th'[t].outcome # "moved"

\* The call of t whose move failed returns to its caller in this step.
ReturnsAfterFailure(t) ==
    /\ th[t].pc = "pnf_end"
    /\ th[t].outcome = "move_failed"
    /\ Steps(t)

(* C23: a move failure is contained.  A failing shutil.move is caught:
   process_new_file ends in the ordinary way, the files are as they were,
   the source at its path if it was there, and neither the failing step nor
   the return that follows changes downloading_files; the call is over after
   the return.  A sweep lists for processing only paths it finds in the map,
   so the failed placement is not taken up again on account of the failure. *)
C23_MoveFailureContained ==
    [][ \A t \in Threads :
          /\ MoveFails(t) =>
               /\ th'[t].pc = "pnf_end"
               /\ th'[t].outcome = "move_failed"
               /\ fs' = fs
               /\ downloading_files' = downloading_files
          /\ ReturnsAfterFailure(t) =>
               /\ fs' = fs
               /\ downloading_files' = downloading_files
               /\ th'[t].file_path = NoPath
               /\ th'[t].pc \in {"idle", "sw_process"}
          /\ Len(th'[t].files_to_process) > Len(th[t].files_to_process) =>
               th'[t].files_to_process[Len(th'[t].files_to_process)]
                 \in DOMAIN downloading_files ]_vars

\* C23's case: the move of an arrival has failed, the file is where it was
\* and its path is not in the map.
C23_Witness ==
    \E t \in Threads :
      /\ th[t].pc = "pnf_end"
      /\ th[t].origin = "event"
      /\ th[t].outcome = "move_failed"
      /\ th[t].file_path \in DOMAIN fs
      /\ th[t].file_path \notin DOMAIN downloading_files

(* The arrival of a PDF whose excerpt gets any answer of up to MaxResponse
   atoms from the keyword service: letters in both cases, blanks, commas. *)
ResponseAtoms == {"a", "ACME", " ", ","}

RECURSIVE Texts(_)
Texts(n) ==
    IF n = 0 THEN { <<>> }
    ELSE Texts(n - 1) \cup { Append(x, c) : x \in Texts(n - 1), c \in ResponseAtoms }

AllResponses == {ServiceError} \cup { ServiceText(x) : x \in Texts(MaxResponse) }

KeywordPaths == { MkPath(DOWNLOADS_FOLDER, <<"a">>, ".pdf") }

KeywordStep(t) ==
    \/ PnfExists(t)
    \/ IfcFirst(t)
    \/ IfcSecond(t)
    \/ PnfQueueLock(t)
    \/ PnfQueue(t)
    \/ PnfUnlistLock(t)
    \/ PnfUnlist(t)
    \/ LsLoad(t)
    \/ SaveOpen(t)
    \/ SaveWrite(t)
    \/ Extract(t)
    \/ KeywordsFrom(t, AllResponses)
    \/ RsScan(t)
    \/ RsMove(t)
    \/ Return(t)

InitKeywords ==
    /\ \E p \in KeywordPaths, size \in 0..MaxSize : fs = [q \in {p} |-> size]
    /\ dirs = {HOME, DOWNLOADS_FOLDER}
    /\ settings_file \in StartSettings
    /\ downloading_files = [p \in {} |-> 0]
    /\ downloading_files_lock = NoThread
    /\ now = 0
    /\ downloads = 1
    /\ events = 0
    /\ saves = 0
    /\ th = [t \in Threads |-> IdleFrame]

NextKeywords ==
    \/ Quiescent /\ \E p \in KeywordPaths : OnCreated(p, FALSE)
    \/ KeywordStep("watcher")

SpecKeywords == InitKeywords /\ [][NextKeywords]_vars

\* The places of a text where a comma-separated token ends or begins: the
\* commas, and the two ends.
Cuts(text) == {0, Len(text) + 1} \cup {i \in 1..Len(text) : text[i] = ","}

\* The k-th of them, counted from 0.
Cut(text, k) ==
    CHOOSE i \in Cuts(text) : Cardinality({j \in Cuts(text) : j < i}) = k

\* The comma-separated tokens of a text, in order.
Tokens(text) ==
    [k \in 1..(Cardinality(Cuts(text)) - 1) |->
       SubSeq(text, Cut(text, k - 1) + 1, Cut(text, k) - 1)]

\* A token without its leading and trailing blanks.
Trimmed(token) ==
    LET inked == {i \in 1..Len(token) : token[i] # " "} IN
    IF inked = {} THEN <<>>
    ELSE SubSeq(token, CHOOSE i \in inked : \A j \in inked : i <= j,
                       CHOOSE i \in inked : \A j \in inked : i >= j)

\* The first tokens of a text that are not empty, trimmed and lower-cased,
\* two at most.
FirstTokens(text) ==
    LET kept == SelectSeq(Tokens(text), LAMBDA token : Trimmed(token) # <<>>)
    IN  [k \in 1..(IF Len(kept) < 2 THEN Len(kept) ELSE 2) |->
           [i \in 1..Len(Trimmed(kept[k])) |-> Lower(Trimmed(kept[k])[i])]]

\* extract_keywords returns from a call the service answered with a text.
KeywordsAnswered(t) ==
    /\ th[t].pc = "keywords"
    /\ Steps(t)
    /\ ~ th'[t].response.raised

\* A keyword is lower-cased, trimmed and not empty.
Normalized(keyword) ==
    /\ keyword # <<>>
    /\ keyword[1] # " "
    /\ keyword[Len(keyword)] # " "
    /\ \A i \in 1..Len(keyword) : Lower(keyword[i]) = keyword[i]

\* A keyword is one word: no blank and no comma inside.
SingleToken(keyword) == \A i \in 1..Len(keyword) : keyword[i] \notin {" ", ","}

(* C25 (as claimed): keyword normalization.  For every answer text,
   extract_keywords returns at most 2 keywords, each of them not empty,
   lower-cased, trimmed and a single token without blank or comma: the first
   comma-separated tokens of the answer that are not empty, in order. *)
C25_KeywordNormalization ==
    [][ \A t \in Threads :
          KeywordsAnswered(t) =>
            LET keywords == th'[t].keywords IN
            /\ Len(keywords) <= 2
            /\ \A k \in 1..Len(keywords) :
                 Normalized(keywords[k]) /\ SingleToken(keywords[k])
            /\ keywords = FirstTokens(th'[t].response.content) ]_vars

\* extract_keywords returns from a call in which the service failed.
ServiceFails(t) ==
    /\ th[t].pc = "keywords"
    /\ Steps(t)
    /\ th'[t].response.raised

\* The path the original name of the file has in the target folder.
OriginalName(f) == MkPath(f.target_folder, f.file_path.base, f.file_path.ext)

(* C26 (as claimed): a keyword-service failure degrades.  When the remote
   call or the reading of its answer raises, extract_keywords returns the
   empty list to its caller, which goes on to rename_and_sort_file; and the
   move that follows, when no other file has the original name in the target
   folder, puts the file there under its original base name. *)
C26_ServiceFailureDegrades ==
    [][ \A t \in Threads :
          /\ ServiceFails(t) =>
               /\ th'[t].keywords = <<>>
               /\ th'[t].pc = "ls_load"
               /\ th'[t].ls_caller = "place"
          /\ (/\ Moves(t)
              /\ th[t].response.raised
              /\ OriginalName(th[t]) \notin DOMAIN fs \ {th[t].file_path})
               => /\ th[t].new_base_name = th[t].file_path.base
                  /\ Resolve(th[t].new_file_path).base = th[t].file_path.base ]_vars

\* Thread t is in the content extractor or in the keyword-service call.
DerivingKeywords(f) == f.pc \in {"extract", "keywords"}

(* C27 (as claimed): the keyword step is gated by settings.  The content
   extractor and the keyword service run only for a file of a
   keyword-capable category and only when the record process_new_file read
   for the arrival has rename_files true. *)
C27_KeywordStepGated ==
    \A t \in Threads :
      DerivingKeywords(th[t]) =>
        /\ th[t].category \in KeywordCategories
        /\ Get(th[t].settings, "rename_files", TRUE)

(* The arrival of a PDF with extract_text_from_pdf taken attempt by attempt,
   while the download is written, finished, deleted or started again. *)
ExtractPaths == { MkPath(DOWNLOADS_FOLDER, <<"a">>, ".pdf") }

ExtractStep(t) ==
    \/ PnfExists(t)
    \/ IfcFirst(t)
    \/ IfcSecond(t)
    \/ PnfQueueLock(t)
    \/ PnfQueue(t)
    \/ PnfUnlistLock(t)
    \/ PnfUnlist(t)
    \/ LsLoad(t)
    \/ SaveOpen(t)
    \/ SaveWrite(t)
    \/ PdfAttempt(t)
    \/ Keywords(t)
    \/ RsScan(t)
    \/ RsMove(t)
    \/ Return(t)

NextExtract ==
    \/ \E p \in ExtractPaths : Download(p)
    \/ \E p \in ExtractPaths : Write(p)
    \/ \E p \in ExtractPaths : Delete(p)
    \/ \E p \in ExtractPaths : OnCreated(p, FALSE)
    \/ ExtractStep("watcher")

SpecExtract == Init /\ [][NextExtract]_vars

\* Thread t makes an attempt of extract_text_from_pdf in this step.
Attempts(t) == th[t].pc = "extract" /\ Steps(t)

\* extract_text_from_pdf returns the empty text in this step of t:
\* process_pdf prints and returns.
ReturnsEmpty(t) ==
    /\ th'[t].pc = "pnf_end"
    /\ th'[t].outcome = "no_text"
    /\ th'[t].text = ""

(* C28: bounded PDF extraction.  extract_text_from_pdf has made fewer than 3
   attempts whenever it makes one.  An attempt that finds the file missing,
   or that raises FileNotFoundError, returns the empty text at once; one
   that reads text returns the text at once; one that finds the size zero,
   reads no text or raises another error counts as an attempt, after which
   the function tries again if fewer than 3 attempts are made and returns
   the empty text otherwise.  So every attempt returns or brings the count
   nearer to 3, and the function terminates. *)
C28_BoundedExtraction ==
    [][ \A t \in Threads :
          Attempts(t) =>
            LET f == th[t]  g == th'[t] IN
            /\ f.attempt \in 0..2
            /\ f.file_path \notin DOMAIN fs =>
                 g.read = "missing" /\ ReturnsEmpty(t) /\ g.attempt = f.attempt
            /\ f.file_path \in DOMAIN fs => g.read \in PdfReads
            /\ g.read = "fnf" => ReturnsEmpty(t) /\ g.attempt = f.attempt
            /\ g.read = "text" =>
                 /\ g.pc = "keywords"
                 /\ g.text # ""
                 /\ g.attempt = f.attempt
            /\ g.read \in {"zero", "empty", "error"} =>
                 /\ g.attempt = f.attempt + 1
                 /\ IF g.attempt < 3
                    THEN g.pc = "extract" /\ g.text = ""
                    ELSE ReturnsEmpty(t) ]_vars

\* C28's case: the third attempt has failed like the two before it and the
\* function has returned the empty text of a file that exists.
C28_Witness ==
    \E t \in Threads :
      /\ th[t].pc = "pnf_end"
      /\ th[t].outcome = "no_text"
      /\ th[t].attempt = 3
      /\ th[t].read = "empty"
      /\ th[t].file_path \in DOMAIN fs

\* The entry of p is 60 seconds old or less for the sweep of t, whose
\* current_time is the time of its start.
WithinGrace(t, p) == th[t].current_time - downloading_files[p] <= 60

\* The sweep of t starts in this step: it has the lock and reads the time.
SweepStarts(t) == th[t].pc = "sw_lock" /\ th'[t].pc = "sw_iter"

\* The sweep of t leaves its "with" block in this step.
SweepUnlocks(t) == th[t].pc = "sw_iter" /\ th'[t].pc = "sw_process"

(* C29: the grace period of the sweep.  current_time is the time at which the
   sweep took the lock.  When the sweep comes to an entry that is 60 seconds
   old or less, it goes on to the next entry: no stability test is started,
   nothing is listed for processing or marked for removal, and the map is as
   it was, whether the file exists or not.  Such an entry is in the map with
   the same timestamp when the sweep releases the lock. *)
C29_SweepGracePeriod ==
    [][ \A t \in Threads :
          /\ SweepStarts(t) => th'[t].current_time = now
          /\ \A p \in DOMAIN downloading_files :
               /\ (Examines(t, p) /\ WithinGrace(t, p)) =>
                    /\ th'[t].pc = "sw_iter"
                    /\ th'[t].ifc_caller = "none"
                    /\ th'[t].files_to_process = th[t].files_to_process
                    /\ th'[t].files_to_remove = th[t].files_to_remove
                    /\ downloading_files' = downloading_files
               /\ (SweepUnlocks(t) /\ WithinGrace(t, p)) =>
                    /\ p \in DOMAIN downloading_files'
                    /\ downloading_files'[p] = downloading_files[p] ]_vars

\* C29's case: a sweep has gone past an entry exactly 60 seconds old whose
\* file is gone, and has marked nothing.
C29_Witness ==
    \E t \in Threads :
      /\ th[t].pc = "sw_iter"
      /\ th[t].todo = {}
      /\ th[t].files_to_remove = {}
      /\ \E p \in DOMAIN downloading_files :
           /\ th[t].current_time - downloading_files[p] = 60
           /\ p \notin DOMAIN fs

\* The path p enters downloading_files in this step.
Inserted(p) ==
    /\ p \notin DOMAIN downloading_files
    /\ p \in DOMAIN downloading_files'

\* The ways a process_new_file call ends without a failed stability check.
UnqueuedOutcomes == {"absent", "gated", "no_text", "moved", "move_failed"}

(* C30: pending entries come only from stability failures.  A path enters
   downloading_files only by the queueing branch of a process_new_file call
   for that path whose stability check returned false, and the call made
   that check only after it found the file existing.  A call that ends at
   the category gate, with an empty excerpt, after a keyword failure, or
   with a move that failed or succeeded has inserted nothing on its way from
   the stable branch to its end. *)
C30_OnlyStabilityFailuresQueue ==
    [][ /\ \A p \in DOMAIN downloading_files' :
             Inserted(p) =>
               \E t \in Threads :
                 /\ Steps(t)
                 /\ th[t].pc = "pnf_queue"
                 /\ th[t].file_path = p
                 /\ ~ th[t].complete
        /\ \A t \in Threads :
             /\ (th[t].pc = "pnf_exists" /\ th'[t].ifc_caller = "pnf")
                  => th[t].file_path \in DOMAIN fs
             /\ (Steps(t) /\ th[t].pc \in {"ls_load", "save_open", "save_write",
                                             "extract", "keywords", "rs_scan",
                                             "rs_move", "pnf_end"})
                  => DOMAIN downloading_files' \subseteq DOMAIN downloading_files
             /\ (Steps(t) /\ th'[t].pc = "pnf_end"
                           /\ th'[t].outcome \in UnqueuedOutcomes)
                  => DOMAIN downloading_files' \subseteq DOMAIN downloading_files ]_vars

\* C30's case: a call has ended at the category gate and the path of its
\* file is not in the map.
C30_Witness ==
    \E t \in Threads :
      /\ th[t].pc = "pnf_end"
      /\ th[t].outcome = "gated"
      /\ th[t].file_path \in DOMAIN fs
      /\ th[t].file_path \notin DOMAIN downloading_files

\* ------------------------------------------------------------ lock liveness

(* The system with its two threads scheduled fairly: a thread that can take
   a step takes one.  The watcher is an observer thread and the sweep runs
   on the main thread's run loop; neither is suspended for ever.  The
   preferences window stays closed and the first run finds no settings.json. *)
InitFair ==
    /\ Init
    /\ settings_file = AbsentFile

NextFair ==
    \/ Environment
    \/ \E p \in SrcPaths, d \in BOOLEAN : OnCreated(p, d)
    \/ \E p \in SrcPaths, d \in BOOLEAN : OnModified(p, d)
    \/ TimerFires
    \/ \E t \in Threads : ThreadStep(t)

SpecFair ==
    /\ InitFair
    /\ [][NextFair]_vars
    /\ \A t \in Threads : WF_vars(ThreadStep(t))

\* The positions at which a thread asks for downloading_files_lock.
LockRequestPcs == {"sw_lock", "pnf_queue_lock", "pnf_unlist_lock", "mod_lock"}

\* Thread t is at the first statement of a process_new_file call that
\* check_pending_downloads made.
SweepCallsPnf(t) ==
    /\ th[t].origin = "sweep"
    /\ th[t].pc = "pnf_exists"

(* C31: deadlock freedom of the pending-map lock.  No thread asks for
   downloading_files_lock while it holds it; check_pending_downloads is
   outside its "with" block whenever it is inside process_new_file; and
   under fair scheduling every acquisition is followed by a release. *)
C31_LockDeadlockFree ==
    /\ [](\A t \in Threads :
            /\ th[t].pc \in LockRequestPcs => downloading_files_lock # t
            /\ SweepCallsPnf(t) => downloading_files_lock # t
            /\ th[t].pc = "sw_process" => downloading_files_lock # t)
    /\ \A t \in Threads :
         (downloading_files_lock = t) ~> (downloading_files_lock = NoThread)

\* C31's case: the sweep holds the lock inside its loop while the watcher
\* waits for it with a path to queue.
C31_Witness ==
    /\ downloading_files_lock = "main"
    /\ th["main"].pc = "ifc_second"
    /\ th["watcher"].pc = "pnf_queue_lock"

\* ----------------------------------------------------- order of the stages

\* The call is in a processor (lines 250-307), between the gate and
\* rename_and_sort_file's scan: f.settings is what the gate read.
InProcessor(f) ==
    \/ f.pc \in {"extract", "keywords"}
    \/ (f.pc \in {"ls_load", "save_open", "save_write"} /\ f.ls_caller = "place")

\* The call is in the scan or at the move of rename_and_sort_file.
InPlacement(f) == f.pc \in {"rs_scan", "rs_move"}

\* The call is at the gate: load_settings of line 342 is running.
AtGate(f) ==
    /\ f.pc \in {"ls_load", "save_open", "save_write"}
    /\ f.ls_caller = "gate"

\* Thread t changes the files in this step.
ChangesFiles(t) == Steps(t) /\ fs' # fs

\* The stability check of process_new_file returns true in this step.
StableReturned(t) ==
    /\ th[t].pc \in {"ifc_first", "ifc_second"}
    /\ th[t].ifc_caller = "pnf"
    /\ th'[t].complete

(* C32: stability precedes placement.  A thread changes the files only at
   the move of a call whose stability check returned true, whose category
   is the one of the path's extension and whose gate passed; the call
   reaches its stages in order: the stable branch from a check that
   returned true, the gate from the stable branch, a processor from a gate
   that passed, the scan from a processor, the move from the scan.  A call
   whose check returned false goes to the queueing branch and ends. *)
C32_StabilityPrecedesPlacement ==
    /\ [](\A t \in Threads :
            LET f == th[t] IN
            /\ (AtGate(f) \/ InProcessor(f) \/ InPlacement(f))
                 => (f.complete /\ f.category = CategoryOf(f.file_path))
            /\ InProcessor(f) => GatePasses(f.settings, f.category))
    /\ [][ \A t \in Threads :
             /\ ChangesFiles(t) => (th[t].pc = "rs_move" /\ th[t].complete)
             /\ (th'[t].pc = "pnf_unlist_lock" /\ th[t].pc # "pnf_unlist_lock")
                  => StableReturned(t)
             /\ (th'[t].pc = "pnf_unlist" /\ th[t].pc # "pnf_unlist")
                  => th[t].pc = "pnf_unlist_lock"
             /\ (AtGate(th'[t]) /\ ~ AtGate(th[t])) => th[t].pc = "pnf_unlist"
             /\ (InProcessor(th'[t]) /\ ~ InProcessor(th[t]))
                  => (AtGate(th[t]) /\ GatePasses(th'[t].settings, th[t].category))
             /\ (InPlacement(th'[t]) /\ ~ InPlacement(th[t])) => InProcessor(th[t])
             /\ (th'[t].pc = "rs_move" /\ th[t].pc # "rs_move") => th[t].pc = "rs_scan"
             /\ (th[t].pc \in {"pnf_queue_lock", "pnf_queue"} /\ Steps(t))
                  => (/\ ~ th[t].complete
                      /\ th'[t].pc \in {"pnf_queue", "pnf_end"}
                      /\ th'[t].outcome \in {"none", "queued"}) ]_vars

\* C32's case: a call made for a Created event has moved a file with
\* keywords in its name after the check, the gate and the processor.
C32_Witness ==
    \E t \in Threads :
      /\ th[t].pc = "pnf_end"
      /\ th[t].origin = "event"
      /\ th[t].outcome = "moved"
      /\ th[t].complete
      /\ th[t].keywords # <<>>

\* ------------------------------------------- one file, two calls at a time

(* One archive, downloaded once, that the user may delete, with both
   threads running and time that never stops (Elapse): a Created event and
   a sweep can be inside process_new_file for the same path at once.  Size
   queries and moves may fail for reasons of their own. *)
NextRace ==
    \/ \E p \in LivePaths : downloads = 0 /\ Download(p)
    \/ \E p \in LivePaths : Write(p)
    \/ \E p \in LivePaths : Delete(p)
    \/ Elapse
    \/ \E p \in LivePaths : OnCreated(p, FALSE)
    \/ TimerFires
    \/ \E t \in Threads : LiveStep(t)

SpecRace ==
    /\ Init
    /\ [][NextRace]_vars
    /\ SF_vars(Elapse)
    /\ WF_vars(TimerFires)
    /\ \A t \in Threads : WF_vars(LiveStep(t))

\* Both threads are inside process_new_file for the same path.
BothProcess(p) ==
    \A t \in Threads :
      /\ th[t].file_path = p
      /\ th[t].origin \in {"event", "sweep"}

\* The move of t finds its source gone.
SourceGone(t) ==
    /\ th[t].pc = "rs_move"
    /\ Steps(t)
    /\ th[t].file_path \notin DOMAIN fs

\* A call for p has ended after p stopped being a file, by queueing the
\* path or by a move that failed.
LostTheFile(t, p) ==
    /\ th[t].pc = "pnf_end"
    /\ th[t].file_path = p
    /\ th[t].outcome \in {"queued", "move_failed"}
    /\ p \notin DOMAIN fs

(* C33: at most one move per file.  The file downloaded to a path is moved
   at most once: a step that moves takes the source away and adds no file,
   the path of a file that is gone stays free, and the two threads never
   both end with a move for the path; a move that finds the source gone is
   caught, changes neither the files nor the pending map and ends the call;
   so there is never more than one file.  When a call has ended after the
   file went away, the path is out of the pending map some time later. *)
C33_AtMostOneMove ==
    /\ [](/\ Cardinality(DOMAIN fs) <= 1
          /\ \A p \in LivePaths :
               ~ (\A t \in Threads : /\ th[t].pc = "pnf_end"
                                     /\ th[t].file_path = p
                                     /\ th[t].outcome = "moved"))
    /\ [][ /\ \A t \in Threads :
                /\ ChangesFiles(t)
                     => (/\ th[t].file_path \in DOMAIN fs
                         /\ th[t].file_path \notin DOMAIN fs'
                         /\ Cardinality(DOMAIN fs') = Cardinality(DOMAIN fs))
                /\ SourceGone(t)
                     => (/\ th'[t].pc = "pnf_end"
                         /\ th'[t].outcome = "move_failed"
                         /\ fs' = fs
                         /\ downloading_files' = downloading_files)
           /\ \A p \in LivePaths :
                (downloads > 0 /\ p \notin DOMAIN fs) => p \notin DOMAIN fs' ]_vars
    /\ \A p \in LivePaths :
         (\E t \in Threads : LostTheFile(t, p)) ~> (p \notin DOMAIN downloading_files)

\* C33's case: the watcher and the sweep processed the same path at once;
\* the sweep moved the file and the watcher's move found the source gone.
C33_Witness ==
    \E p \in LivePaths :
      /\ BothProcess(p)
      /\ th["main"].pc = "pnf_end"
      /\ th["main"].outcome = "moved"
      /\ th["watcher"].pc = "pnf_end"
      /\ th["watcher"].outcome = "move_failed"
      /\ p \notin DOMAIN fs
      /\ Cardinality(DOMAIN fs) = 1

\* The entry of p is in the pending map and no file has the path.
Orphaned(p) ==
    /\ p \in DOMAIN downloading_files
    /\ p \notin DOMAIN fs

(* C36: no pending entry is stuck forever.  With time that passes and a
   timer that keeps firing, an entry of downloading_files whose file has
   been deleted by the user, or moved away by the pipeline, is out of the
   map some time later. *)
C36_OrphansAreRemoved ==
    \A p \in LivePaths : Orphaned(p) ~> (p \notin DOMAIN downloading_files)

\* C36's case: a sweep has marked for removal the entry of a file that the
\* pipeline moved to its folder, and is about to delete the entries it marked.
C36_Witness ==
    \E p \in LivePaths :
      /\ th["main"].pc = "sw_iter"
      /\ th["main"].todo = {}
      /\ p \in th["main"].files_to_remove
      /\ Orphaned(p)
      /\ PlacedArchive(p) \in DOMAIN fs

\* -------------------------------------------------- placement that changes nothing

\* rename_and_sort_file was asked to change neither the folder nor the name.
NothingToChange(f) ==
    /\ ~ Get(f.current_settings, "organize_folders", TRUE)
    /\ NewBaseName(f.current_settings, f.keywords, f.file_path.base) = f.file_path.base

(* C34 (as claimed): placement is a no-op when nothing should change.  A
   call that placed a file with organize_folders false and a new base name
   equal to the original one has left the file at its original path in the
   watched root. *)
C34_PlacementNoOp ==
    \A t \in Threads :
      LET f == th[t] IN
      (/\ f.pc = "pnf_end"
       /\ f.outcome = "moved"
       /\ NothingToChange(f))
        => (/\ Resolve(f.new_file_path) = f.file_path
            /\ f.file_path \in DOMAIN fs)

(* C35 (as claimed): destination confinement.  Whatever keywords the
   service's answer gave, the path a file was moved to lies directly in
   the target directory: <root>/<category> when organize_folders is read
   true, <root> when it is read false. *)
C35_DestinationConfined ==
    \A t \in Threads :
      LET f == th[t] IN
      (f.pc = "pnf_end" /\ f.outcome = "moved")
        => Resolve(f.new_file_path).dir
             = TargetFolder(f.current_settings, f.category)

\* ------------------------------------------------- the preferences windows

\* The records MyPreferencesWindowController.saveSettings_ can write: the
\* two checkboxes of its window and nothing else.
MyUISettings ==
    { [kind |-> "ok", rename_files |-> r, organize_folders |-> o] :
        r \in BOOLEAN, o \in BOOLEAN }

(* MyPreferencesWindowController.saveSettings_ (lines 80-88 of
   MyPreferencesWindowController.py), the Save button of the preferences
   window run as a program of its own, with its save_settings (lines 31-36)
   on the same settings.json: open(SETTINGS_FILE, "w") raises and the file
   stays, json.dump raises part-way and the file is damaged, or the record
   is written. *)
MySaveSettings(s) ==
    /\ saves < MaxSaves
    /\ saves' = saves + 1
    /\ \E written \in {"not opened", "partly", "all"} :
         settings_file' = IF written = "not opened" THEN settings_file
                          ELSE IF written = "partly" THEN BadFile
                          ELSE s
    /\ UNCHANGED << fs, dirs, downloading_files, downloading_files_lock, now,
                    downloads, events, th >>

(* One PDF in the watched folder, the preferences window of the application
   and the preferences window run on its own, over a settings.json that
   starts as the application leaves it. *)
InitPrefs ==
    /\ \E size \in 0..MaxSize : fs = [q \in SrcPaths |-> size]
    /\ dirs = {HOME, DOWNLOADS_FOLDER}
    /\ settings_file \in StartSettings
    /\ downloading_files = [p \in {} |-> 0]
    /\ downloading_files_lock = NoThread
    /\ now = 0
    /\ downloads = 1
    /\ events = 0
    /\ saves = 0
    /\ th = [t \in Threads |-> IdleFrame]

NextPrefs ==
    \/ ShowWindow
    \/ \E s \in UISettings : SaveSettingsUI(s)
    \/ \E s \in MyUISettings : MySaveSettings(s)
    \/ LsLoad("main")
    \/ SaveOpen("main")
    \/ SaveWrite("main")
    \/ \E p \in SrcPaths : OnCreated(p, FALSE)
    \/ PipelineStep("watcher")

SpecPrefs == InitPrefs /\ [][NextPrefs]_vars

\* The record has a boolean file_types entry for every category of FILE_TYPES.
HasEveryGate(record) ==
    /\ "file_types" \in DOMAIN record
    /\ record.file_types # NotAnObject
    /\ \A c \in Categories :
         /\ c \in DOMAIN record.file_types
         /\ record.file_types[c] \in BOOLEAN

(* C37 (as claimed): saved settings keep the per-category gates.  Whenever
   settings.json holds a record, the record has a boolean file_types entry
   for every category of the category table. *)
C37_SavedGatesComplete ==
    settings_file.kind = "ok" => HasEveryGate(settings_file)

====
